---- MODULE Spec2Model ----
(***************************************************************************)
(* Sentinel-2 scene selection and download scripts.                        *)
(*                                                                         *)
(*   s2_stac_pick_cloudfree.py : asset resolvers, pick_topk_items          *)
(*   s2_s3_download_rgb.py     : download stage reading the manifest       *)
(*                                                                         *)
(* Time is counted in whole hours since an epoch that falls on a UTC       *)
(* midnight.  A Python float is [inf, v]; a Python dict is a function      *)
(* whose DOMAIN is the set of keys present; None is the record None.       *)
(***************************************************************************)
EXTENDS Integers, Sequences, FiniteSets, TLC

VARIABLES
    \* ---- pick_topk_items (s2_stac_pick_cloudfree.py)
    catalog,        \* the catalog snapshot, in the catalog's response order
    lax,            \* whether the catalog returns items lacking a filtered property
    target_date,    \* the target date (a UTC midnight)
    cfg,            \* PickConfig
    k,              \* requested number of candidates
    pc,             \* "loop" | "returned" | "raised"
    tier,           \* index into plan of the next tier to query
    last_reason,    \* failure reason of the last empty tier
    queries,        \* the catalog queries issued so far, in order
    pool,           \* items collected by the last query
    items_sorted,   \* the sorted pool of the tier that succeeded
    result,         \* the returned dict
    \* ---- asset resolvers applied to one item
    r_item,         \* the item handed to a resolver
    r_pc,           \* "call" | "returned"
    r_fn,           \* which resolver returned
    r_out,          \* what it returned
    \* ---- download stage (s2_s3_download_rgb.py main)
    d_pc,           \* "run" | "done" | "raised"
    d_targets,      \* number of targets in the manifest
    d_t,            \* position of the target being read
    d_n,            \* n = min(len(candidates), len(candidates_assets)) of that target
    d_i,            \* candidates of that target already handled
    fs,             \* the non-empty files under the download root
    d_zero,         \* the files of size zero under the download root
    d_last,         \* the candidate handled last and what was done for it
    \* ---- index arithmetic (s2_make_indices.py safe_index and the index block of main)
    m_args,         \* the arrays handed to the computation
    m_pc,           \* "call" | "returned"
    m_fn,           \* which computation returned
    m_out,          \* what it returned
    \* ---- index stage (s2_make_indices.py main)
    x_pc,           \* "run" | "done" | "raised"
    x_targets,      \* number of targets in the manifest
    x_t,            \* position of the target being read
    x_n,            \* n = min(len(cands), len(assets)) of that target
    x_i,            \* candidates of that target already handled
    x_last,         \* the candidate handled last and what was done for it
    \* ---- composite stage (s2_make_rgb.py main)
    g_batch,        \* the candidate directories under the download root, sorted
    g_i,            \* directories already handled
    g_pc,           \* "run" | "done" | "raised"
    g_out,          \* per directory, the files of its output directory
    \* ---- download_with_token (s2_download_test.py)
    t_pc,           \* "attempt" | "writing" | "returned" | "raised" | "crashed"
    t_attempt,      \* the loop variable attempt
    t_body,         \* number of chunks of the whole response body
    t_part,         \* the file at tmp_path
    t_final,        \* the file at out_zip
    t_slept,        \* the durations slept so far, in order
    t_requests,     \* number of requests made
    \* ---- s2_download_top3_and_compare.py main
    p_pc,           \* "run" | "raised" | "done"
    p_n,            \* len(data["targets"])
    p_t,            \* number of targets the loop is through with
    p_i,            \* 0 between targets, else the triplet position to build next
    p_fs,           \* the files under S2_TOP3_JP2
    p_figs,         \* the targets whose compare PNG is written
    p_last,         \* what the loop did last
    \* ---- s2_stac_pick_cloudfree.py main
    s_pc,           \* "run" | "saved" | "raised"
    s_targets,      \* the list targets of (sensor, date) pairs
    s_cats,         \* the catalog's answer to each target handled so far
    s_results,      \* results["targets"]
    s_manifest,     \* the content of downloads/s2_stac_picks_manifest.json
    \* ---- the visualization stretches
    v_img,          \* the three band arrays, as blocks of equal pixels
    v_pc,           \* "call" | "done"
    v_fn,           \* the stretch called
    v_out,          \* what it returned or raised
    \* ---- the grids of the bands read for a composite or for the indices
    q_pc,           \* "call" | "done"
    q_fn,           \* "make_rgb_from_bands" | "indices"
    q_in,           \* the grid of each band file read
    q_out,          \* the arrays combined, or the exception
    \* ---- the file layout shared by the stages
    y_in,           \* the manifest position handled: sensor, candidate id, entry
    y_written,      \* the band files the download stage has written: role and path
    y_ran,          \* the later stages that have run
    y_looked        \* where each of them looked for a band: stage, role and path

pickVars == <<catalog, lax, target_date, cfg, k, pc, tier, last_reason, queries, pool,
              items_sorted, result>>
resVars == <<r_item, r_pc, r_fn, r_out>>
dlVars == <<d_pc, d_targets, d_t, d_n, d_i, fs, d_zero, d_last>>
mathVars == <<m_args, m_pc, m_fn, m_out>>
idxVars == <<x_pc, x_targets, x_t, x_n, x_i, x_last>>
rgbVars == <<g_batch, g_i, g_pc, g_out>>
tokVars == <<t_pc, t_attempt, t_body, t_part, t_final, t_slept, t_requests>>
top3Vars == <<p_pc, p_n, p_t, p_i, p_fs, p_figs, p_last>>
selVars == <<s_pc, s_targets, s_cats, s_results, s_manifest>>
strVars == <<v_img, v_pc, v_fn, v_out>>
gridVars == <<q_pc, q_fn, q_in, q_out>>
layVars == <<y_in, y_written, y_ran, y_looked>>
restVars == <<mathVars, idxVars, rgbVars, tokVars, top3Vars, selVars, strVars, gridVars, layVars>>
vars == <<pickVars, resVars, dlVars, restVars>>
mathOthers == <<pickVars, resVars, dlVars, idxVars, rgbVars, tokVars, top3Vars, selVars, strVars,
    gridVars, layVars>>
idxOthers == <<pickVars, resVars, dlVars, mathVars, rgbVars, tokVars, top3Vars, selVars, strVars,
    gridVars, layVars>>
rgbOthers == <<pickVars, resVars, dlVars, mathVars, idxVars, tokVars, top3Vars, selVars, strVars,
    gridVars, layVars>>
tokOthers == <<pickVars, resVars, dlVars, mathVars, idxVars, rgbVars, top3Vars, selVars, strVars,
    gridVars, layVars>>
top3Others == <<pickVars, resVars, dlVars, mathVars, idxVars, rgbVars, tokVars, selVars, strVars,
    gridVars, layVars>>
selOthers == <<pickVars, resVars, dlVars, mathVars, idxVars, rgbVars, tokVars, top3Vars, strVars,
    gridVars, layVars>>
strOthers == <<pickVars, resVars, dlVars, mathVars, idxVars, rgbVars, tokVars, top3Vars, selVars,
    gridVars, layVars>>
layOthers == <<pickVars, resVars, dlVars, mathVars, idxVars, rgbVars, tokVars, top3Vars, selVars,
    strVars, gridVars>>
gridOthers == <<pickVars, resVars, dlVars, mathVars, idxVars, rgbVars, tokVars, top3Vars, selVars,
    strVars, layVars>>

\* ------------------------------------------------------------------ bounds

MaxCatalog == 3
MaxTargets == 2
MaxCands == 2
MaxPixels == 1
MaxDirs == 2
MaxChunks == 2
MaxBlocks == 2

\* ------------------------------------------------------------ Python values

None == [none |-> TRUE]

Max(a, b) == IF a >= b THEN a ELSE b
Min(a, b) == IF a <= b THEN a ELSE b
Abs(a) == IF a < 0 THEN 0 - a ELSE a

Fl(v) == [inf |-> FALSE, v |-> v]
Inf == [inf |-> TRUE, v |-> 0]
FloatLess(a, b) == IF a.inf THEN FALSE ELSE IF b.inf THEN TRUE ELSE a.v < b.v
FloatEq(a, b) == (a.inf /\ b.inf) \/ (~a.inf /\ ~b.inf /\ a.v = b.v)

\* Python slice s[:n]
SliceTo(s, n) ==
    IF n >= 0 THEN SubSeq(s, 1, Min(n, Len(s)))
    ELSE SubSeq(s, 1, Max(Len(s) + n, 0))

\* --------------------------------------------------------- catalog items

AssetKeys == {"TCI_10m", "B02_10m", "B03_10m", "B04_10m", "B08_10m", "B11_20m", "SCL_20m"}

\* An asset object; href <<>> stands for a missing, None or empty href.
Location(id, key) == <<"eodata", id, key>>
AssetAt(id, key) == [href |-> Location(id, key), media_type |-> "image/jp2"]
AssetNoHref == [href |-> <<>>, media_type |-> "image/jp2"]

\* item.assets holding the keys ks with an href and the keys nh without one
AssetsOf(id, ks, nh) ==
    [is_none |-> FALSE,
     d |-> [key \in ks \cup nh |-> IF key \in ks THEN AssetAt(id, key) ELSE AssetNoHref]]
AssetsNone == [is_none |-> TRUE, d |-> <<>>]

\* properties["eo:cloud_cover"]
CloudNum(v) == [kind |-> "num", v |-> v]
CloudAbsent == [kind |-> "absent", v |-> 0]
CloudText == [kind |-> "text", v |-> 0]

\* properties["datetime"]: an ISO8601 string, local hour count and UTC offset
DateTime(h, off) == [has |-> TRUE, h |-> h, off |-> off]
DateTimeMissing == [has |-> FALSE, h |-> 0, off |-> 0]

Item(id, cloud, datetime, assets) ==
    [id |-> id, cloud |-> cloud, datetime |-> datetime, assets |-> assets]

RgbKeys == {"B02_10m", "B03_10m", "B04_10m"}

Universe ==
    { Item("a", CloudNum(5), DateTime(1, 0), AssetsOf("a", AssetKeys, {})),
      Item("b", CloudNum(50), DateTime(100, 0), AssetsOf("b", RgbKeys \cup {"B08_10m"}, {})),
      Item("c", CloudNum(15), DateTime(2, 0), AssetsOf("c", AssetKeys \ {"B02_10m"}, {})),
      Item("d", CloudNum(15), DateTime(11, 9), AssetsOf("d", RgbKeys, {"TCI_10m", "B08_10m"})),
      Item("e", CloudNum(15), DateTime(-2, 0), AssetsNone),
      Item("f", CloudAbsent, DateTime(0, 0), AssetsOf("f", AssetKeys, {})),
      Item("g", CloudText, DateTime(1, 0), AssetsOf("g", RgbKeys, {})),
      Item("h", CloudNum(30), DateTime(110, 0), AssetsOf("h", {"TCI_10m"}, {})),
      Item("z", CloudNum(100), DateTime(300, 0), AssetsOf("z", AssetKeys, {})),
      Item("x", CloudNum(5), DateTimeMissing, AssetsOf("x", AssetKeys, {})) }

\* ------------------------------------------------------- asset resolvers

\* item.assets or {}
AssetsOrEmpty(item) == IF item.assets.is_none THEN <<>> ELSE item.assets.d

\* the nested get(key) of the resolvers: a resolved reference, or None
GetAsset(assets, key) ==
    IF key \in DOMAIN assets /\ assets[key].href # <<>>
    THEN [key |-> key, href |-> assets[key].href, type |-> assets[key].media_type]
    ELSE None

pick_s2_tci_asset(item) == GetAsset(AssetsOrEmpty(item), "TCI_10m")

\* mutant: one band with a location is enough
pick_s2_rgb_bands_any(item) ==
    LET assets == AssetsOrEmpty(item)
        out == [B02 |-> GetAsset(assets, "B02_10m"),
                B03 |-> GetAsset(assets, "B03_10m"),
                B04 |-> GetAsset(assets, "B04_10m")]
    IN IF ~(out.B02 # None \/ out.B03 # None \/ out.B04 # None) THEN None ELSE out

pick_s2_rgb_bands(item) ==
    LET assets == AssetsOrEmpty(item)
        out == [B02 |-> GetAsset(assets, "B02_10m"),
                B03 |-> GetAsset(assets, "B03_10m"),
                B04 |-> GetAsset(assets, "B04_10m")]
    IN IF ~(out.B02 # None /\ out.B03 # None /\ out.B04 # None) THEN None ELSE out

\* mutant: the short-wave-infrared band is required as well
pick_s2_index_assets_needs_b11(item) ==
    LET assets == AssetsOrEmpty(item)
        out == [B08 |-> GetAsset(assets, "B08_10m"),
                B11 |-> GetAsset(assets, "B11_20m"),
                SCL |-> GetAsset(assets, "SCL_20m")]
    IN IF out.B08 = None \/ out.B11 = None THEN None ELSE out

pick_s2_index_assets(item) ==
    LET assets == AssetsOrEmpty(item)
        out == [B08 |-> GetAsset(assets, "B08_10m"),
                B11 |-> GetAsset(assets, "B11_20m"),
                SCL |-> GetAsset(assets, "SCL_20m")]
    IN IF out.B08 = None THEN None ELSE out

\* ------------------------------------------------------- scoring and sorting

\* mutant: an absent cloud cover read as 0
safe_get_cloud_zero(item) ==
    IF item.cloud.kind = "num" THEN Fl(item.cloud.v) ELSE Fl(0)

\* float(v) of the cloud-cover property; inf when it is absent or not a number
safe_get_cloud(item) ==
    IF item.cloud.kind = "absent" THEN Inf
    ELSE IF item.cloud.kind = "num" THEN Fl(item.cloud.v)
    ELSE Inf

\* the ISO8601 string as a UTC instant
to_dt_utc(s) == s.h - s.off

\* item.properties["datetime"] raises KeyError when the property is missing
ScoreRaises(item) == ~item.datetime.has

score_item(item, target_dt) ==
    LET cloud == safe_get_cloud(item)
        dt == to_dt_utc(item.datetime)
        dt_diff_hours == Abs(dt - target_dt)
    IN <<cloud, dt_diff_hours, dt>>

\* mutant: only the cloud cover is compared
KeyLessCloudOnly(a, b) == FloatLess(a[1], b[1])

\* Python's tuple comparison of two sort keys
KeyLess(a, b) ==
    \/ FloatLess(a[1], b[1])
    \/ /\ FloatEq(a[1], b[1])
       /\ \/ a[2] < b[2]
          \/ a[2] = b[2] /\ a[3] < b[3]

\* sorted(items, key=...): a stable sort, equal keys keep their input order
RECURSIVE Sorted(_, _)
Sorted(items, target_dt) ==
    IF items = <<>> THEN <<>>
    ELSE LET n == Len(items)
             last == items[n]
             s == Sorted(SubSeq(items, 1, n - 1), target_dt)
             pos == Cardinality({i \in 1..Len(s) :
                        ~KeyLess(score_item(last, target_dt), score_item(s[i], target_dt))})
         IN SubSeq(s, 1, pos) \o <<last>> \o SubSeq(s, pos + 1, Len(s))

\* ------------------------------------------------------- pick_topk_items

Plan(c) ==
    << [window_days |-> c.window_days, cloud_lt |-> c.cloud_lt],
       [window_days |-> Max(c.window_days, 5), cloud_lt |-> Max(c.cloud_lt, 40)],
       [window_days |-> Max(c.window_days, 10), cloud_lt |-> 100] >>

\* the datetime range start/end of a tier, inclusive, in hours
RangeStart(target_dt, window_days) == target_dt - 24 * window_days
RangeEnd(target_dt, window_days) == target_dt + 24 * window_days + 23

\* client.search(...).items(): the catalog's answer, in its own order
Matches(it, target_dt, t) ==
    /\ IF it.datetime.has
       THEN /\ RangeStart(target_dt, t.window_days) <= to_dt_utc(it.datetime)
            /\ to_dt_utc(it.datetime) <= RangeEnd(target_dt, t.window_days)
       ELSE lax
    /\ IF it.cloud.kind = "num" THEN it.cloud.v < t.cloud_lt ELSE lax

RECURSIVE Filter(_, _, _)
Filter(s, target_dt, t) ==
    IF s = <<>> THEN <<>>
    ELSE IF Matches(Head(s), target_dt, t)
         THEN <<Head(s)>> \o Filter(Tail(s), target_dt, t)
         ELSE Filter(Tail(s), target_dt, t)

Search(cat, t) == Filter(cat, target_date, t)

\* the collecting loop: append, then break once len(items) >= max_items
Collect(found, max_items) ==
    IF found = <<>> THEN <<>> ELSE SubSeq(found, 1, Min(Len(found), Max(max_items, 1)))

Reason(t) == [kind |-> "tier", window_days |-> t.window_days, cloud_lt |-> t.cloud_lt]
NoReason == [kind |-> "none", window_days |-> 0, cloud_lt |-> 0]
DefaultReason == [kind |-> "No items found", window_days |-> 0, cloud_lt |-> 0]

Summary(it) == [id |-> it.id, datetime |-> it.datetime, cloud |-> it.cloud]

Bundle(it) ==
    [id |-> it.id,
     tci |-> pick_s2_tci_asset(it),
     bands |-> pick_s2_rgb_bands(it),
     index |-> pick_s2_index_assets(it)]

TopK(sorted_items, n) ==
    [i \in 1..Len(SliceTo(sorted_items, n)) |-> Summary(SliceTo(sorted_items, n)[i])]

\* mutant: the bundles are built for the whole pool
TopKAssetsAll(sorted_items, n) ==
    [i \in 1..Len(sorted_items) |-> Bundle(sorted_items[i])]

TopKAssets(sorted_items, n) ==
    [i \in 1..Len(SliceTo(sorted_items, n)) |-> Bundle(SliceTo(sorted_items, n)[i])]

NoResult == [status |-> "none"]

OkResult(t, sorted_items) ==
       [status |-> "ok",
        target_date |-> target_date,
        search_used |-> [datetime |-> <<RangeStart(target_date, t.window_days),
                                        RangeEnd(target_date, t.window_days)>>,
                         cloud_lt |-> t.cloud_lt,
                         window_days |-> t.window_days],
        candidates_topk |-> TopK(sorted_items, k),
        candidates_topk_rgb_assets |-> TopKAssets(sorted_items, k)]

\* mutant: the tier's reason is dropped
NoItemsResultDefaultReason ==
    [status |-> "no_items",
     target_date |-> target_date,
     reason |-> DefaultReason]

NoItemsResult ==
    [status |-> "no_items",
     target_date |-> target_date,
     reason |-> IF last_reason # NoReason THEN last_reason ELSE DefaultReason]

Tiers == 1..3

\* one pass of the loop that finds nothing: record the reason, go on
TierEmpty ==
    /\ pc = "loop" /\ tier \in Tiers
    /\ LET t == Plan(cfg)[tier]
           items == Collect(Search(catalog, t), cfg.max_items)
       IN /\ items = <<>>
          /\ queries' = Append(queries, t)
          /\ pool' = items
          /\ last_reason' = Reason(t)
          /\ tier' = tier + 1
    /\ UNCHANGED <<catalog, lax, target_date, cfg, k, pc, items_sorted, result, resVars, dlVars, restVars>>

\* one pass that finds items, one of them without a datetime: the sort key raises
TierRaises ==
    /\ pc = "loop" /\ tier \in Tiers
    /\ LET t == Plan(cfg)[tier]
           items == Collect(Search(catalog, t), cfg.max_items)
       IN /\ items # <<>>
          /\ \E i \in 1..Len(items) : ScoreRaises(items[i])
          /\ queries' = Append(queries, t)
          /\ pool' = items
          /\ pc' = "raised"
    /\ UNCHANGED <<catalog, lax, target_date, cfg, k, tier, last_reason, items_sorted, result,
                   resVars, dlVars, restVars>>

\* mutant: the result is built but the loop goes on to the next tier
TierOkGoesOn ==
    /\ pc = "loop" /\ tier \in Tiers
    /\ LET t == Plan(cfg)[tier]
           items == Collect(Search(catalog, t), cfg.max_items)
       IN /\ items # <<>>
          /\ \A i \in 1..Len(items) : ~ScoreRaises(items[i])
          /\ queries' = Append(queries, t)
          /\ pool' = items
          /\ items_sorted' = Sorted(items, target_date)
          /\ result' = OkResult(t, Sorted(items, target_date))
          /\ tier' = tier + 1
    /\ UNCHANGED <<catalog, lax, target_date, cfg, k, pc, last_reason, resVars, dlVars, restVars>>

\* one pass that finds items: sort, cut to k, return
TierOk ==
    /\ pc = "loop" /\ tier \in Tiers
    /\ LET t == Plan(cfg)[tier]
           items == Collect(Search(catalog, t), cfg.max_items)
       IN /\ items # <<>>
          /\ \A i \in 1..Len(items) : ~ScoreRaises(items[i])
          /\ queries' = Append(queries, t)
          /\ pool' = items
          /\ items_sorted' = Sorted(items, target_date)
          /\ result' = OkResult(t, Sorted(items, target_date))
          /\ pc' = "returned"
    /\ UNCHANGED <<catalog, lax, target_date, cfg, k, tier, last_reason, resVars, dlVars, restVars>>

\* the plan is exhausted
ReturnNoItems ==
    /\ pc = "loop" /\ tier \notin Tiers
    /\ result' = NoItemsResult
    /\ pc' = "returned"
    /\ UNCHANGED <<catalog, lax, target_date, cfg, k, tier, last_reason, queries, pool,
                   items_sorted, resVars, dlVars, restVars>>

\* ------------------------------------------------------- inputs

Configs ==
    { [window_days |-> 3, cloud_lt |-> 20, max_items |-> 200],
      [window_days |-> 10, cloud_lt |-> 100, max_items |-> 200],
      [window_days |-> 3, cloud_lt |-> 150, max_items |-> 200],
      [window_days |-> 3, cloud_lt |-> 20, max_items |-> 2],
      [window_days |-> 7, cloud_lt |-> 50, max_items |-> 0] }
Ks == {-1, 0, 1, 2}
TargetDates == {0, 24}

Catalogs ==
    { s \in UNION {[1..m -> Universe] : m \in 0..MaxCatalog} :
        \A i, j \in 1..Len(s) : i # j => s[i].id # s[j].id }

ResIdle ==
    /\ r_item = None
    /\ r_pc = "idle"
    /\ r_fn = "none"
    /\ r_out = None

NoId == ""
NoLast ==
    [sensor |-> "", cand_id |-> NoId, entry |-> None, item_id |-> NoId,
     reported |-> FALSE, touched |-> {}, fetched |-> {}]

DlIdle ==
    /\ d_pc = "idle"
    /\ d_targets = 0
    /\ d_t = 1
    /\ d_n = 0
    /\ d_i = 0
    /\ fs = {}
    /\ d_zero = {}
    /\ d_last = NoLast

MathIdle ==
    /\ m_args = None
    /\ m_pc = "idle"
    /\ m_fn = "none"
    /\ m_out = None

NoIdxLast ==
    [sensor |-> "", cand_id |-> NoId, entry |-> None, present |-> {}, scl_code |-> 0,
     outcome |-> "none", written |-> {}]

IdxIdle ==
    /\ x_pc = "idle"
    /\ x_targets = 0
    /\ x_t = 1
    /\ x_n = 0
    /\ x_i = 0
    /\ x_last = NoIdxLast

RgbIdle ==
    /\ g_batch = <<>>
    /\ g_i = 0
    /\ g_pc = "idle"
    /\ g_out = <<>>

\* a file: who wrote it ("old": it was there before the call) and its chunks
NoFile == [there |-> FALSE, who |-> "", chunks |-> 0]
File(who, n) == [there |-> TRUE, who |-> who, chunks |-> n]

TokIdle ==
    /\ t_pc = "idle"
    /\ t_attempt = 1
    /\ t_body = 1
    /\ t_part = NoFile
    /\ t_final = NoFile
    /\ t_slept = <<>>
    /\ t_requests = 0

NoTop3Last == [status |-> "", ncands |-> 0, entry |-> None, err |-> ""]

Top3Idle ==
    /\ p_pc = "idle"
    /\ p_n = 0
    /\ p_t = 0
    /\ p_i = 0
    /\ p_fs = {}
    /\ p_figs = {}
    /\ p_last = NoTop3Last

NoManifest == [there |-> FALSE]

SelIdle ==
    /\ s_pc = "idle"
    /\ s_targets = <<>>
    /\ s_cats = <<>>
    /\ s_results = <<>>
    /\ s_manifest = NoManifest

StrIdle ==
    /\ v_img = <<>>
    /\ v_pc = "idle"
    /\ v_fn = "none"
    /\ v_out = None

GridIdle ==
    /\ q_pc = "idle"
    /\ q_fn = "none"
    /\ q_in = None
    /\ q_out = None

LayIdle ==
    /\ y_in = None
    /\ y_written = {}
    /\ y_ran = {}
    /\ y_looked = {}

RestIdle ==
    MathIdle /\ IdxIdle /\ RgbIdle /\ TokIdle /\ Top3Idle /\ SelIdle /\ StrIdle /\ GridIdle
    /\ LayIdle

PickIdle ==
    /\ catalog = <<>>
    /\ lax = FALSE
    /\ target_date = 0
    /\ cfg = [window_days |-> 3, cloud_lt |-> 20, max_items |-> 200]
    /\ k = 3
    /\ pc = "idle"
    /\ tier = 1
    /\ last_reason = NoReason
    /\ queries = <<>>
    /\ pool = <<>>
    /\ items_sorted = <<>>
    /\ result = NoResult

InitPick ==
    /\ catalog \in Catalogs
    /\ lax \in BOOLEAN
    /\ target_date \in TargetDates
    /\ cfg \in Configs
    /\ k \in Ks
    /\ pc = "loop"
    /\ tier = 1
    /\ last_reason = NoReason
    /\ queries = <<>>
    /\ pool = <<>>
    /\ items_sorted = <<>>
    /\ result = NoResult
    /\ ResIdle
    /\ DlIdle
    /\ RestIdle

NextPick == TierEmpty \/ TierRaises \/ TierOk \/ ReturnNoItems

SpecPick == InitPick /\ [][NextPick]_vars

\* pick_topk_items as a function of the catalog's response order: the status and
\* the identifiers it returns for the inputs target_date, cfg and k
RunPick(cat) ==
    LET hit == {i \in Tiers : Collect(Search(cat, Plan(cfg)[i]), cfg.max_items) # <<>>}
    IN IF hit = {} THEN [status |-> "no_items", ids |-> <<>>]
       ELSE LET first == CHOOSE i \in hit : \A j \in hit : i <= j
                items == Collect(Search(cat, Plan(cfg)[first]), cfg.max_items)
                top == SliceTo(Sorted(items, target_date), k)
            IN IF \E i \in 1..Len(items) : ScoreRaises(items[i])
               THEN [status |-> "raised", ids |-> <<>>]
               ELSE [status |-> "ok", ids |-> [i \in 1..Len(top) |-> top[i].id]]

\* ======================================================================
\* Properties of pick_topk_items, checked under SpecPick
\* ======================================================================

Ids(s) == [i \in 1..Len(s) |-> s[i].id]
IdSet(s) == {s[i].id : i \in 1..Len(s)}
Returned == pc = "returned"
ReturnedOk == pc = "returned" /\ result.status = "ok"

\* the order of the specification, written on the raw properties of two
\* candidates with a numeric cloud cover and a timestamp
UtcOf(c) == c.datetime.h - c.datetime.off
DistOf(c) == Abs(UtcOf(c) - target_date)
NotAfter(x, y) ==
    \/ x.cloud.v < y.cloud.v
    \/ /\ x.cloud.v = y.cloud.v
       /\ \/ DistOf(x) < DistOf(y)
          \/ DistOf(x) = DistOf(y) /\ UtcOf(x) <= UtcOf(y)
PoolDefined == \A i \in 1..Len(pool) : pool[i].cloud.kind = "num" /\ pool[i].datetime.has

\* C1: for a non-empty pool of n items with defined cloud cover and timestamps
\* and k >= 1, the call returns 'ok' and candidates_topk is the first min(k, n)
\* items of the pool in the order (cloud asc, |dt| asc, timestamp asc): it has
\* min(k, n) distinct items of the pool, in non-decreasing key order, and no
\* item left out precedes an item taken.  Fewer than k items is still 'ok'.
\* The 5%/50%/15% at 1h/100h/2h pool with k = 2 gives the 5% then the 15% item.
Thm_C1_TopKSorted ==
    (pc # "loop" /\ pool # <<>> /\ PoolDefined /\ k >= 1) =>
        /\ ReturnedOk
        /\ LET top == result.candidates_topk
               n == Len(pool)
           IN /\ Len(top) = Min(k, n)
              /\ IdSet(top) \subseteq IdSet(pool)
              /\ \A i, j \in 1..Len(top) : i # j => top[i].id # top[j].id
              /\ \A i, j \in 1..Len(top) : i < j => NotAfter(top[i], top[j])
              /\ \A j \in 1..n : pool[j].id \notin IdSet(top) =>
                     \A i \in 1..Len(top) : NotAfter(top[i], pool[j])
              /\ (IdSet(pool) = {"a", "b", "c"} /\ target_date = 0 /\ k = 2) =>
                     Ids(top) = <<"a", "c">>

Wit_C1_Example ==
    /\ ReturnedOk
    /\ Ids(pool) = <<"b", "c", "a">>
    /\ target_date = 0 /\ k = 2
    /\ Ids(result.candidates_topk) = <<"a", "c">>

Perms(s) ==
    { [i \in 1..Len(s) |-> s[q[i]]] :
        q \in {f \in [1..Len(s) -> 1..Len(s)] : \A i, j \in 1..Len(s) : i # j => f[i] # f[j]} }

\* C2: the identifiers returned and their order are the same for every order in
\* which the catalog returns the same items (stated here for k >= 1 and catalogs
\* that fit the pool cap, so that every order yields the same pool).
CE_C2_OrderIndependent ==
    (ReturnedOk /\ k >= 1 /\ Len(catalog) <= cfg.max_items) =>
        \A cat \in Perms(catalog) :
            RunPick(cat) = [status |-> "ok", ids |-> Ids(result.candidates_topk)]

AllTiersEmpty ==
    \A i \in Tiers : Collect(Search(catalog, Plan(cfg)[i]), cfg.max_items) = <<>>

\* C3: when every tier yields nothing the call does not raise, it can always
\* take its next step, and what it returns is 'no_items' with the reason of the
\* last tier tried (window max(window_days, 10), ceiling 100).
Thm_C3_NoItems ==
    AllTiersEmpty =>
        /\ pc # "raised"
        /\ pc = "loop" => ENABLED (TierEmpty \/ ReturnNoItems)
        /\ Returned =>
              /\ result.status = "no_items"
              /\ result.reason.kind = "tier"
              /\ result.reason.window_days = Max(cfg.window_days, 10)
              /\ result.reason.cloud_lt = 100
              /\ Len(queries) = 3

Wit_C3_NoItems ==
    /\ Returned /\ result.status = "no_items"
    /\ catalog # <<>>
    /\ Len(queries) = 3

\* C4: the tiers queried are non-decreasing in window and in cloud ceiling from
\* one tier to the next, and the first tier is the caller's criteria.
CE_C4_Monotone ==
    /\ queries # <<>> =>
          /\ queries[1].window_days = cfg.window_days
          /\ queries[1].cloud_lt = cfg.cloud_lt
    /\ \A i \in 1..(Len(queries) - 1) :
          /\ queries[i].window_days <= queries[i + 1].window_days
          /\ queries[i].cloud_lt <= queries[i + 1].cloud_lt

\* C5: an 'ok' result ends the call; the queries issued are the tiers in order
\* up to the first one the catalog answers with an item, every earlier one was
\* answered with nothing, the candidates are items of that tier's pool, and
\* search_used holds that tier's window_days and cloud_lt.
Thm_C5_StopsAtFirstHit ==
    result.status = "ok" =>
        LET n == Len(queries)
        IN /\ pc = "returned"
           /\ ~ENABLED (TierEmpty \/ TierRaises \/ TierOk)
           /\ n \in Tiers
           /\ \A i \in 1..n : queries[i] = Plan(cfg)[i]
           /\ \A i \in 1..(n - 1) : Search(catalog, queries[i]) = <<>>
           /\ Search(catalog, queries[n]) # <<>>
           /\ IdSet(result.candidates_topk) \subseteq IdSet(Search(catalog, queries[n]))
           /\ result.search_used.window_days = queries[n].window_days
           /\ result.search_used.cloud_lt = queries[n].cloud_lt

Wit_C5_SecondTier ==
    /\ ReturnedOk
    /\ Len(queries) = 2
    /\ Search(catalog, Plan(cfg)[3]) # Search(catalog, Plan(cfg)[2])
    /\ result.candidates_topk # <<>>

\* C6: a call with k <= 0 never returns an 'ok' result.
CE_C6_RejectsBadK ==
    k <= 0 => ~ReturnedOk

\* C7: in the sorted pool an item whose cloud cover is absent or not a number
\* comes after every item whose cloud cover is a number.
Thm_C7_AbsentCloudLast ==
    ReturnedOk =>
        /\ IdSet(items_sorted) = IdSet(pool) /\ Len(items_sorted) = Len(pool)
        /\ \A i, j \in 1..Len(items_sorted) :
              (items_sorted[i].cloud.kind # "num" /\ items_sorted[j].cloud.kind = "num") => j < i

Wit_C7_AbsentCloudLast ==
    /\ ReturnedOk
    /\ \E i, j \in 1..Len(items_sorted) :
          /\ items_sorted[i].cloud.kind = "absent"
          /\ items_sorted[j].cloud.kind = "num"
          /\ DistOf(items_sorted[i]) < DistOf(items_sorted[j])
    /\ \E i \in 1..Len(items_sorted) : items_sorted[i].cloud.kind = "text"

\* C8: in an 'ok' result the two lists have the same length and the same id at
\* every position.
Thm_C8_Aligned ==
    result.status = "ok" =>
        /\ Len(result.candidates_topk) = Len(result.candidates_topk_rgb_assets)
        /\ \A i \in 1..Len(result.candidates_topk) :
              result.candidates_topk[i].id = result.candidates_topk_rgb_assets[i].id

Wit_C8_Aligned ==
    /\ ReturnedOk
    /\ Len(result.candidates_topk) = 2
    /\ Len(pool) = 3
    /\ Ids(result.candidates_topk) # Ids(SliceTo(pool, 2))

\* ======================================================================
\* The asset resolvers applied to one catalog item
\* ======================================================================

AssetStates == {"absent", "nohref", "href"}

\* an item whose asset of key is absent, present without href, or present with one
ItemWith(st) ==
    Item("i", CloudNum(0), DateTime(0, 0),
         [is_none |-> FALSE,
          d |-> [key \in {x \in AssetKeys : st[x] # "absent"} |->
                    IF st[key] = "href" THEN AssetAt("i", key) ELSE AssetNoHref]])

ResolverItems ==
    {ItemWith(st) : st \in [AssetKeys -> AssetStates]}
        \cup {Item("i", CloudNum(0), DateTime(0, 0), AssetsNone)}

CallRgbBands ==
    /\ r_pc = "call"
    /\ r_out' = pick_s2_rgb_bands(r_item)
    /\ r_fn' = "pick_s2_rgb_bands"
    /\ r_pc' = "returned"
    /\ UNCHANGED <<r_item, pickVars, dlVars, restVars>>

CallIndexAssets ==
    /\ r_pc = "call"
    /\ r_out' = pick_s2_index_assets(r_item)
    /\ r_fn' = "pick_s2_index_assets"
    /\ r_pc' = "returned"
    /\ UNCHANGED <<r_item, pickVars, dlVars, restVars>>

CallTciAsset ==
    /\ r_pc = "call"
    /\ r_out' = pick_s2_tci_asset(r_item)
    /\ r_fn' = "pick_s2_tci_asset"
    /\ r_pc' = "returned"
    /\ UNCHANGED <<r_item, pickVars, dlVars, restVars>>

InitResolve ==
    /\ r_item \in ResolverItems
    /\ r_pc = "call"
    /\ r_fn = "none"
    /\ r_out = None
    /\ PickIdle
    /\ DlIdle
    /\ RestIdle

NextResolve == CallRgbBands \/ CallIndexAssets \/ CallTciAsset

SpecResolve == InitResolve /\ [][NextResolve]_vars

\* the item has an asset under key, and the asset has a location
HasLocation(item, key) ==
    /\ ~item.assets.is_none
    /\ key \in DOMAIN item.assets.d
    /\ item.assets.d[key].href # <<>>

\* C10: pick_s2_rgb_bands always returns; it returns a bundle exactly when
\* B02_10m, B03_10m and B04_10m are all present with a location, the bundle
\* then holding the three locations, and None for every other item.
Thm_C10_RgbAllOrNone ==
    /\ r_pc = "call" => ENABLED CallRgbBands
    /\ (r_pc = "returned" /\ r_fn = "pick_s2_rgb_bands") =>
          IF \A key \in RgbKeys : HasLocation(r_item, key)
          THEN /\ r_out # None
               /\ r_out.B02.href = r_item.assets.d["B02_10m"].href
               /\ r_out.B03.href = r_item.assets.d["B03_10m"].href
               /\ r_out.B04.href = r_item.assets.d["B04_10m"].href
               /\ r_out.B02.key = "B02_10m" /\ r_out.B03.key = "B03_10m"
               /\ r_out.B04.key = "B04_10m"
          ELSE r_out = None

Wit_C10_OneMissing ==
    /\ r_pc = "returned" /\ r_fn = "pick_s2_rgb_bands"
    /\ HasLocation(r_item, "B03_10m") /\ HasLocation(r_item, "B04_10m")
    /\ ~r_item.assets.is_none
    /\ "B02_10m" \in DOMAIN r_item.assets.d
    /\ ~HasLocation(r_item, "B02_10m")
    /\ r_out = None

\* the reference the resolvers build for the asset under key
Resolved(item, key) ==
    [key |-> key, href |-> item.assets.d[key].href, type |-> item.assets.d[key].media_type]

\* C11: pick_s2_index_assets always returns; it returns a bundle exactly when
\* the B08_10m asset is present with a location; in the bundle the B11 entry
\* is the resolved B11_20m reference when that asset has a location and None
\* otherwise, and the SCL entry likewise for SCL_20m, each whatever the other is.
Thm_C11_IndexNeedsOnlyB08 ==
    /\ r_pc = "call" => ENABLED CallIndexAssets
    /\ (r_pc = "returned" /\ r_fn = "pick_s2_index_assets") =>
          IF HasLocation(r_item, "B08_10m")
          THEN /\ r_out # None
               /\ r_out.B08 = Resolved(r_item, "B08_10m")
               /\ r_out.B11 = IF HasLocation(r_item, "B11_20m")
                              THEN Resolved(r_item, "B11_20m") ELSE None
               /\ r_out.SCL = IF HasLocation(r_item, "SCL_20m")
                              THEN Resolved(r_item, "SCL_20m") ELSE None
          ELSE r_out = None

Wit_C11_B11Missing ==
    /\ r_pc = "returned" /\ r_fn = "pick_s2_index_assets"
    /\ HasLocation(r_item, "B08_10m") /\ HasLocation(r_item, "SCL_20m")
    /\ ~HasLocation(r_item, "B11_20m")
    /\ r_out # None /\ r_out.B11 = None /\ r_out.SCL # None

\* ======================================================================
\* The download stage: main of s2_s3_download_rgb.py
\* ======================================================================

\* t.get("sensor", "UNKNOWN") of the target at position t
Sensors == <<"ICEYE", "UMBRA", "Capella">>
SensorAt(t) == IF t \in 1..Len(Sensors) THEN Sensors[t] ELSE "UNKNOWN"

\* out_dir / f"{item_id}_{keyname}.jp2" with out_dir = dl_root / sensor / item_id
OutPath(sensor, item_id, keyname) ==
    [sensor |-> sensor, dir |-> item_id, file |-> <<item_id, keyname, "jp2">>]

\* a manifest reference that is present and has an href
HasHref(a) == a # None /\ a.href # <<>>

\* a.get("key", default)
KeyName(a, default) == IF a.key = "" THEN default ELSE a.key

\* what the body of the candidate loop does for one entry, in order: a file
\* to have at a path, or the RuntimeError of a band without href
Get(a, default) == [op |-> "get", keyname |-> KeyName(a, default), href |-> a.href]
Raise == [op |-> "raise", keyname |-> "", href |-> <<>>]

TciSteps(entry) ==
    IF HasHref(entry.tci) THEN <<Get(entry.tci, "TCI_10m")>> ELSE <<>>

BandNames == <<"B02", "B03", "B04">>
BandSteps(entry) ==
    IF entry.bands = None THEN <<>>
    ELSE [i \in 1..Len(BandNames) |->
            IF HasHref(entry.bands[BandNames[i]])
            THEN Get(entry.bands[BandNames[i]], BandNames[i])
            ELSE Raise]

RECURSIVE SelectGets(_, _, _)
SelectGets(extra, names, i) ==
    IF i > Len(names) THEN <<>>
    ELSE IF HasHref(extra[names[i]])
         THEN <<Get(extra[names[i]], names[i])>> \o SelectGets(extra, names, i + 1)
         ELSE SelectGets(extra, names, i + 1)

ExtraNames == <<"B08", "B11", "SCL">>
ExtraSteps(entry) ==
    IF entry.index = None THEN <<>> ELSE SelectGets(entry.index, ExtraNames, 1)

Steps(entry) == TciSteps(entry) \o BandSteps(entry) \o ExtraSteps(entry)

\* mutant: the candidate's id is kept
ItemIdOfCand(cand_id, entry) == cand_id

\* the id the files of an entry are stored under
ItemIdOf(cand_id, entry) ==
    IF entry.id # NoId /\ entry.id # cand_id THEN entry.id ELSE cand_id

\* the mismatch warning is printed
Reports(cand_id, entry) == entry.id # NoId /\ entry.id # cand_id

\* mutant: every file is downloaded again
IsThereNever(path, files) == FALSE

\* ensure_download: out_path.exists() and out_path.stat().st_size > 0
IsThere(path, files) == path \in files

\* Running the steps from step i on with the non-empty files in files and the
\* empty ones in zero: a file that is there and not empty is left alone, any
\* other is downloaded; the download at step bad fails and a "raise" step
\* raises, either of which ends the run.
RECURSIVE RunSteps(_, _, _, _, _, _)
RunSteps(steps, i, sensor, item_id, bad, st) ==
    IF i > Len(steps) THEN st
    ELSE IF steps[i].op = "raise" THEN [st EXCEPT !.raised = TRUE]
    ELSE LET path == OutPath(sensor, item_id, steps[i].keyname)
         IN IF IsThere(path, st.files)
            THEN RunSteps(steps, i + 1, sensor, item_id, bad,
                          [st EXCEPT !.touched = @ \cup {path}])
            ELSE IF i = bad THEN [st EXCEPT !.raised = TRUE]
            ELSE RunSteps(steps, i + 1, sensor, item_id, bad,
                          [st EXCEPT !.files = @ \cup {path},
                                     !.zero = @ \ {path},
                                     !.touched = @ \cup {path},
                                     !.fetched = @ \cup {path}])

\* ---- the manifest entries the stage may read

CandIds == {"a", "b"}

Entries ==
    {Bundle(it) : it \in {u \in Universe : u.id \in {"a", "b", "c", "e"}}}
        \cup { [Bundle(CHOOSE u \in Universe : u.id = "b") EXCEPT !.id = NoId],
               [id |-> "a",
                tci |-> None,
                bands |-> [B02 |-> None,
                           B03 |-> GetAsset(AssetsOf("a", RgbKeys, {}).d, "B03_10m"),
                           B04 |-> GetAsset(AssetsOf("a", RgbKeys, {}).d, "B04_10m")],
                index |-> None] }

\* a target that is skipped: its status is not "ok", or one of its lists is empty
DlSkipTarget ==
    /\ d_pc = "run" /\ d_t <= d_targets /\ d_n = 0
    /\ d_t' = d_t + 1
    /\ d_n' = 0 /\ d_i' = 0
    /\ UNCHANGED <<d_pc, d_targets, fs, d_zero, d_last, pickVars, resVars, restVars>>

\* a target with status "ok" and n >= 1 candidates to go through
DlBeginTarget(n) ==
    /\ d_pc = "run" /\ d_t <= d_targets /\ d_n = 0
    /\ d_n' = n /\ d_i' = 0
    /\ UNCHANGED <<d_pc, d_targets, d_t, fs, d_zero, d_last, pickVars, resVars, restVars>>

\* the body of the candidate loop for candidates[i] and candidates_assets[i]
DlCandidate(cand_id, entry, bad) ==
    /\ d_pc = "run" /\ d_t <= d_targets /\ d_i < d_n
    /\ LET sensor == SensorAt(d_t)
           item_id == ItemIdOf(cand_id, entry)
           st == RunSteps(Steps(entry), 1, sensor, item_id, bad,
                          [files |-> fs, zero |-> d_zero, touched |-> {}, fetched |-> {},
                           raised |-> FALSE])
       IN /\ fs' = st.files
          /\ d_zero' = st.zero
          /\ d_last' = [sensor |-> sensor, cand_id |-> cand_id, entry |-> entry,
                        item_id |-> item_id, reported |-> Reports(cand_id, entry),
                        touched |-> st.touched, fetched |-> st.fetched]
          /\ IF st.raised
             THEN /\ d_pc' = "raised"
                  /\ UNCHANGED <<d_t, d_n, d_i>>
             ELSE /\ d_pc' = d_pc
                  /\ IF d_i + 1 = d_n
                     THEN d_t' = d_t + 1 /\ d_n' = 0 /\ d_i' = 0
                     ELSE d_t' = d_t /\ d_n' = d_n /\ d_i' = d_i + 1
    /\ UNCHANGED <<d_targets, pickVars, resVars, restVars>>

\* the loop over the targets is over
DlDone ==
    /\ d_pc = "run" /\ d_t > d_targets
    /\ d_pc' = "done"
    /\ UNCHANGED <<d_targets, d_t, d_n, d_i, fs, d_zero, d_last, pickVars, resVars, restVars>>

\* the destination files of an entry stored under item_id
Destinations(sensor, item_id, entry) ==
    LET steps == Steps(entry)
    IN {OutPath(sensor, item_id, steps[i].keyname) :
           i \in {j \in 1..Len(steps) : steps[j].op = "get"}}

\* the output tree an earlier run has left: nothing, everything, or everything
\* but one file of the first target's candidate "a" (its TCI or its B04),
\* which is missing or empty
FullTree ==
    UNION {Destinations(SensorAt(t), ItemIdOf(c, e), e) :
              t \in 1..MaxTargets, c \in CandIds, e \in Entries}
Trees ==
    {[files |-> {}, zero |-> {}], [files |-> FullTree, zero |-> {}]}
        \cup UNION {{[files |-> FullTree \ {p}, zero |-> {}],
                      [files |-> FullTree \ {p}, zero |-> {p}]} :
                        p \in {OutPath(SensorAt(1), "a", key) : key \in {"TCI_10m", "B04_10m"}}}

InitDl ==
    /\ d_pc = "run"
    /\ d_targets \in 0..MaxTargets
    /\ d_t = 1
    /\ d_n = 0
    /\ d_i = 0
    /\ \E tree \in Trees : fs = tree.files /\ d_zero = tree.zero
    /\ d_last = NoLast
    /\ PickIdle
    /\ ResIdle
    /\ RestIdle

NextDl ==
    \/ DlSkipTarget
    \/ \E n \in 1..MaxCands : DlBeginTarget(n)
    \/ \E cand_id \in CandIds, entry \in Entries :
          \E bad \in 0..Len(Steps(entry)) : DlCandidate(cand_id, entry, bad)
    \/ DlDone

SpecDl == InitDl /\ [][NextDl]_vars

\* the references of a manifest entry that carry an href
EntryRefs(entry) ==
    (IF HasHref(entry.tci) THEN {entry.tci} ELSE {})
        \cup (IF entry.bands = None THEN {}
              ELSE {entry.bands[b] : b \in {x \in {"B02", "B03", "B04"} : HasHref(entry.bands[x])}})
        \cup (IF entry.index = None THEN {}
              ELSE {entry.index[b] : b \in {x \in {"B08", "B11", "SCL"} : HasHref(entry.index[x])}})

IdsDiffer == d_last # NoLast /\ d_last.entry.id # NoId /\ d_last.entry.id # d_last.cand_id

\* C9: when the bundle handled last carries an id that differs from the
\* candidate's id at the same position, the mismatch is reported and every
\* file of that entry, found or downloaded, lies in the directory of the
\* bundle's id with the bundle's id as file-name prefix, none under the
\* candidate's id; unless the run raised, every referenced file is there.
Thm_C9_BundleIdWins ==
    IdsDiffer =>
        /\ d_last.reported
        /\ d_last.item_id = d_last.entry.id
        /\ d_last.fetched \subseteq d_last.touched /\ d_last.touched \subseteq fs
        /\ \A path \in d_last.touched :
              /\ path.sensor = d_last.sensor
              /\ path.dir = d_last.entry.id /\ path.file[1] = d_last.entry.id
              /\ path.dir # d_last.cand_id /\ path.file[1] # d_last.cand_id
        /\ d_pc # "raised" =>
              \A a \in EntryRefs(d_last.entry) :
                  [sensor |-> d_last.sensor, dir |-> d_last.entry.id,
                   file |-> <<d_last.entry.id, a.key, "jp2">>] \in d_last.touched

Wit_C9_Mismatch ==
    /\ IdsDiffer
    /\ d_pc = "run"
    /\ d_last.cand_id = "a" /\ d_last.entry.id = "b"
    /\ Cardinality(d_last.fetched) = 4

\* C17: in every pass of the candidate loop no download is made for a file
\* that is there and not empty, and no such file is lost; when every
\* destination file of the entry is there and not empty the pass makes no
\* download at all and leaves the tree as it is; unless the pass raises,
\* every destination file that was missing or empty is downloaded and is
\* there, not empty, afterwards.
Thm_C17_OnlyMissingOrEmptyFetched ==
    [][(d_pc = "run" /\ d_i < d_n) =>
         LET dest == Destinations(d_last'.sensor, d_last'.item_id, d_last'.entry)
         IN /\ d_last'.fetched \cap fs = {}
            /\ d_last'.fetched \subseteq dest
            /\ fs \subseteq fs'
            /\ dest \subseteq fs =>
                  d_last'.fetched = {} /\ fs' = fs /\ d_zero' = d_zero
            /\ d_pc' # "raised" =>
                  \A path \in dest \ fs :
                      path \in d_last'.fetched /\ path \in fs' /\ path \notin d_zero']_vars

Wit_C17_Rerun ==
    /\ d_last # NoLast /\ d_pc = "run"
    /\ d_last.fetched = {}
    /\ Cardinality(d_last.touched) = 7
    /\ d_last.touched = Destinations(d_last.sensor, d_last.item_id, d_last.entry)

\* ======================================================================
\* Index arithmetic: safe_index and the index block of main, s2_make_indices.py
\* ======================================================================

\* A float32 pixel: a finite value n / d (d > 0, lowest terms), an infinity
\* of sign n, or NaN.  Division is exact.
Fin(n) == [kind |-> "fin", n |-> n, d |-> 1]
NaN == [kind |-> "nan", n |-> 0, d |-> 1]
PInf == [kind |-> "inf", n |-> 1, d |-> 1]
NInf == [kind |-> "inf", n |-> -1, d |-> 1]

isfinite(x) == x.kind = "fin"

RECURSIVE Gcd(_, _)
Gcd(a, b) == IF b = 0 THEN a ELSE Gcd(b, a % b)

\* the finite value n / d, d # 0
Ratio(n, d) ==
    LET g == Gcd(Abs(n), Abs(d))
        sgn == IF d < 0 THEN -1 ELSE 1
    IN [kind |-> "fin", n |-> (sgn * n) \div g, d |-> (sgn * d) \div g]

FNeg(x) == IF x.kind = "nan" THEN NaN ELSE [x EXCEPT !.n = 0 - x.n]

FAdd(x, y) ==
    IF x.kind = "nan" \/ y.kind = "nan" THEN NaN
    ELSE IF x.kind = "inf" /\ y.kind = "inf" THEN (IF x.n = y.n THEN x ELSE NaN)
    ELSE IF x.kind = "inf" THEN x
    ELSE IF y.kind = "inf" THEN y
    ELSE Ratio(x.n * y.d + y.n * x.d, x.d * y.d)

FSub(x, y) == FAdd(x, FNeg(y))

\* x / y of two finite values, y # 0
FDiv(x, y) == Ratio(x.n * y.d, x.d * y.n)

\* elementwise a - b and a + b of two arrays of one shape
ArrSub(a, b) == [i \in 1..Len(a) |-> FSub(a[i], b[i])]
ArrAdd(a, b) == [i \in 1..Len(a) |-> FAdd(a[i], b[i])]

\* mutant: a zero denominator gives 0
safe_index_zero(num, den) ==
    [i \in 1..Len(num) |->
        IF isfinite(num[i]) /\ isfinite(den[i])
        THEN (IF den[i].n # 0 THEN FDiv(num[i], den[i]) ELSE Fin(0))
        ELSE NaN]

safe_index(num, den) ==
    [i \in 1..Len(num) |->
        IF isfinite(num[i]) /\ isfinite(den[i]) /\ den[i].n # 0
        THEN FDiv(num[i], den[i])
        ELSE NaN]

\* mutant: only the cloud classes are excluded
SCL_EXCLUDE_clouds == {7, 8, 9, 10}

SCL_EXCLUDE == {0, 1, 2, 3, 7, 8, 9, 10, 11}

\* arr[mask_bad] = np.nan with mask_bad = np.isin(scl, list(SCL_EXCLUDE))
MaskBad(arr, scl) ==
    [i \in 1..Len(arr) |-> IF scl[i] \in SCL_EXCLUDE THEN NaN ELSE arr[i]]

\* an array that may be None: the pixels px of one that is not
Some(px) == [none |-> FALSE, px |-> px]

\* the index block of main: the three indices before the mask
RawIndices(b03, b04, b08, b11) ==
    [ndvi |-> safe_index(ArrSub(b08, b04), ArrAdd(b08, b04)),
     ndwi |-> safe_index(ArrSub(b03, b08), ArrAdd(b03, b08)),
     mndwi |-> IF b11 # None
               THEN Some(safe_index(ArrSub(b03, b11.px), ArrAdd(b03, b11.px)))
               ELSE None]

\* ... and after it: what is written as NDVI, NDWI and (unless None) MNDWI
Indices(b03, b04, b08, b11, scl) ==
    LET raw == RawIndices(b03, b04, b08, b11)
    IN IF scl # None
       THEN [ndvi |-> MaskBad(raw.ndvi, scl.px),
             ndwi |-> MaskBad(raw.ndwi, scl.px),
             mndwi |-> IF raw.mndwi # None
                       THEN Some(MaskBad(raw.mndwi.px, scl.px))
                       ELSE None]
       ELSE raw

\* ---- the inputs

FloatVals == {Fin(-4), Fin(0), Fin(4), Fin(8), Fin(10), NaN, PInf, NInf}

\* reflectance pixels as read from a band file and cast to float32
BandVals == {Fin(0), Fin(4), Fin(8)}

\* scene-classification codes of the SCL legend
SclCodes == 0..11

\* the arrays handed to safe_index: two arrays of one shape
SafeIndexArgs(n) ==
    {[fn |-> "safe_index", num |-> a, den |-> b] : a, b \in [1..n -> FloatVals]}

\* the arrays of the index block; b11 and scl are None when the file is not there
OptArrays(n, V) == {Some(px) : px \in [1..n -> V]} \cup {None}

CallSafeIndex ==
    /\ m_pc = "call" /\ m_args.fn = "safe_index"
    /\ m_out' = safe_index(m_args.num, m_args.den)
    /\ m_fn' = "safe_index"
    /\ m_pc' = "returned"
    /\ UNCHANGED <<m_args, mathOthers>>

CallIndices ==
    /\ m_pc = "call" /\ m_args.fn = "indices"
    /\ m_out' = Indices(m_args.b03, m_args.b04, m_args.b08, m_args.b11, m_args.scl)
    /\ m_fn' = "indices"
    /\ m_pc' = "returned"
    /\ UNCHANGED <<m_args, mathOthers>>

MathOthersIdle ==
    PickIdle /\ ResIdle /\ DlIdle /\ IdxIdle /\ RgbIdle /\ TokIdle /\ Top3Idle /\ SelIdle /\ StrIdle
    /\ GridIdle /\ LayIdle

InitMath ==
    /\ \E n \in 1..MaxPixels :
          \/ m_args \in SafeIndexArgs(n)
          \/ \E b03 \in [1..n -> BandVals], b04 \in [1..n -> BandVals],
                b08 \in [1..n -> BandVals] :
                \E b11 \in OptArrays(n, BandVals), scl \in OptArrays(n, SclCodes) :
                    m_args = [fn |-> "indices", b03 |-> b03, b04 |-> b04, b08 |-> b08,
                              b11 |-> b11, scl |-> scl]
    /\ m_pc = "call"
    /\ m_fn = "none"
    /\ m_out = None
    /\ MathOthersIdle

NextMath == CallSafeIndex \/ CallIndices

SpecMath == InitMath /\ [][NextMath]_vars

\* ---- claims

\* out is the value p / q of two finite values, q # 0
IsQuotient(out, p, q) ==
    /\ out.kind = "fin"
    /\ out.n * (q.n * p.d) = out.d * (p.n * q.d)

\* out is the normalised difference of the pixels a and b as the index
\* formulas define it: NaN where a + b is 0, (a - b) / (a + b) elsewhere
IsNormDiff(out, a, b) ==
    IF ~isfinite(a) \/ ~isfinite(b) \/ FAdd(a, b).n = 0
    THEN out = NaN
    ELSE IsQuotient(out, FSub(a, b), FAdd(a, b))

\* C12 as stated: safe_index(a, b) is NaN wherever a + b = 0 or an input is
\* not finite, and (a - b) / (a + b) elsewhere.
CE_C12_NormDiffOfArgs ==
    (m_pc = "returned" /\ m_fn = "safe_index") =>
        \A i \in 1..Len(m_out) : IsNormDiff(m_out[i], m_args.num[i], m_args.den[i])

\* the pixels i of the last index block that the mask leaves alone
Unmasked ==
    {i \in 1..Len(m_args.b03) : m_args.scl = None \/ m_args.scl.px[i] \notin SCL_EXCLUDE}

\* C12, amended: safe_index(num, den) returns an array of the shape of its
\* arguments that is NaN wherever den is 0 or an input is not finite and
\* num / den elsewhere.  main hands it the
\* difference and the sum of two bands, so that NDVI, NDWI and MNDWI are,
\* where not masked, NaN where the two bands sum to 0 and (a - b) / (a + b)
\* elsewhere.
Thm_C12_SafeQuotient ==
    /\ (m_pc = "returned" /\ m_fn = "safe_index") =>
          /\ Len(m_out) = Len(m_args.num)
          /\ \A i \in 1..Len(m_out) :
                IF ~isfinite(m_args.num[i]) \/ ~isfinite(m_args.den[i]) \/ m_args.den[i].n = 0
                THEN m_out[i] = NaN
                ELSE IsQuotient(m_out[i], m_args.num[i], m_args.den[i])
    /\ (m_pc = "returned" /\ m_fn = "indices") =>
          \A i \in Unmasked :
              /\ IsNormDiff(m_out.ndvi[i], m_args.b08[i], m_args.b04[i])
              /\ IsNormDiff(m_out.ndwi[i], m_args.b03[i], m_args.b08[i])
              /\ m_args.b11 # None =>
                    IsNormDiff(m_out.mndwi.px[i], m_args.b03[i], m_args.b11.px[i])

Wit_C12_EightOverFour ==
    /\ m_pc = "returned" /\ m_fn = "safe_index"
    /\ m_args.num = <<Fin(8)>> /\ m_args.den = <<Fin(4)>>
    /\ m_out = <<Fin(2)>>

\* C13: when the scene-classification layer was read, every pixel whose class
\* code is one of 0, 1, 2, 3, 7, 8, 9, 10, 11 is NaN in NDVI, in NDWI and, when
\* it is computed, in MNDWI, whatever the index was before the mask; every
\* other pixel keeps the value it had before the mask.
Thm_C13_MaskExcluded ==
    (m_pc = "returned" /\ m_fn = "indices" /\ m_args.scl # None) =>
        LET raw == RawIndices(m_args.b03, m_args.b04, m_args.b08, m_args.b11)
        IN /\ (m_out.mndwi # None) <=> (m_args.b11 # None)
           /\ \A i \in 1..Len(m_args.scl.px) :
                IF m_args.scl.px[i] \in {0, 1, 2, 3, 7, 8, 9, 10, 11}
                THEN /\ m_out.ndvi[i] = NaN
                     /\ m_out.ndwi[i] = NaN
                     /\ m_out.mndwi # None => m_out.mndwi.px[i] = NaN
                ELSE /\ m_out.ndvi[i] = raw.ndvi[i]
                     /\ m_out.ndwi[i] = raw.ndwi[i]
                     /\ m_out.mndwi # None => m_out.mndwi.px[i] = raw.mndwi.px[i]

Wit_C13_ShadowPixel ==
    /\ m_pc = "returned" /\ m_fn = "indices" /\ m_args.scl # None
    /\ m_args.scl.px[1] = 3
    /\ m_args.b08[1] = Fin(8) /\ m_args.b04[1] = Fin(4) /\ m_args.b11 # None
    /\ m_out.ndvi[1] = NaN /\ m_out.mndwi.px[1] = NaN

\* ======================================================================
\* The index stage: main of s2_make_indices.py
\* ======================================================================

\* entry.get("bands", {}) or {} and entry.get("index") or ... or {}, read with .get
NoBands == [B02 |-> None, B03 |-> None, B04 |-> None]
NoExtra == [B08 |-> None, B11 |-> None, SCL |-> None]
IdxBands(entry) == IF entry.bands = None THEN NoBands ELSE entry.bands
IdxExtra(entry) == IF entry.index = None THEN NoExtra ELSE entry.index

\* the check of the manifest keys: B03, B04, B08, B11 and SCL all there
KeysThere(entry) ==
    /\ IdxBands(entry).B03 # None /\ IdxBands(entry).B04 # None
    /\ IdxExtra(entry).B08 # None /\ IdxExtra(entry).B11 # None
    /\ IdxExtra(entry).SCL # None

\* one of p_b03, p_b04, p_b08 does not exist: FileNotFoundError
RequiredFileMissing(entry, present) ==
    \E key \in {IdxBands(entry).B03.key, IdxBands(entry).B04.key, IdxExtra(entry).B08.key} :
        key \notin present

\* what the band files hold: every pixel of a file has one value
Raster(v) == [i \in 1..MaxPixels |-> v]
B03Pixels == Raster(Fin(4))
B04Pixels == Raster(Fin(4))
B08Pixels == Raster(Fin(8))
B11Pixels == Raster(Fin(0))

\* the arrays saved for a candidate whose three required files are there
IdxProducts(entry, present, scl_code) ==
    LET scl == IF IdxExtra(entry).SCL.key \in present THEN Some(Raster(scl_code)) ELSE None
        b11 == IF IdxExtra(entry).B11.key \in present THEN Some(B11Pixels) ELSE None
        ix == Indices(B03Pixels, B04Pixels, B08Pixels, b11, scl)
    IN {[name |-> "NDVI", px |-> ix.ndvi], [name |-> "NDWI", px |-> ix.ndwi]}
         \cup (IF ix.mndwi # None THEN {[name |-> "MNDWI", px |-> ix.mndwi.px]} ELSE {})

\* the body of the candidate loop: skip, raise, or compute and save
IdxOutcome(entry, present) ==
    IF ~KeysThere(entry) THEN "skipped"
    ELSE IF RequiredFileMissing(entry, present) THEN "raised"
    ELSE "saved"

\* ---- the manifest entries and download directories the stage may meet

IdxKeys == {"B03_10m", "B04_10m", "B08_10m", "B11_20m", "SCL_20m"}

\* the bundle the picker writes for an item "a" with the asset keys ks
EntryOf(ks) == Bundle(Item("a", CloudNum(5), DateTime(1, 0), AssetsOf("a", ks, {})))

\* every choice of B08, B11 and SCL beside TCI and the three colour bands, an
\* item without B02 (bands is null) and one without assets (everything null)
IdxEntries ==
    {EntryOf(ks) : ks \in {x \in SUBSET AssetKeys : {"TCI_10m"} \cup RgbKeys \subseteq x}}
      \cup {EntryOf(AssetKeys \ {"B02_10m"}), Bundle(CHOOSE u \in Universe : u.id = "e")}

\* download directories: complete, or lacking some of the files
IdxDirs ==
    {IdxKeys \ miss : miss \in {{}, {"B08_10m"}, {"B11_20m"}, {"SCL_20m"},
                                 {"B11_20m", "SCL_20m"}, {"B03_10m"}, IdxKeys}}

\* a clear pixel class (4, vegetation) and an excluded one (3, cloud shadow)
SclContents == {3, 4}

\* a target that is skipped: its status is not "ok", or one of its lists is empty
IdxSkipTarget ==
    /\ x_pc = "run" /\ x_t <= x_targets /\ x_n = 0
    /\ x_t' = x_t + 1
    /\ x_n' = 0 /\ x_i' = 0
    /\ UNCHANGED <<x_pc, x_targets, x_last, idxOthers>>

\* a target with status "ok" and n >= 1 candidates to go through
IdxBeginTarget(n) ==
    /\ x_pc = "run" /\ x_t <= x_targets /\ x_n = 0
    /\ x_n' = n /\ x_i' = 0
    /\ UNCHANGED <<x_pc, x_targets, x_t, x_last, idxOthers>>

\* the body of the candidate loop for cands[i] and assets[i]; present are the
\* files of the candidate's download directory, scl_code what its SCL file holds
IdxCandidate(cand_id, entry, present, scl_code) ==
    /\ x_pc = "run" /\ x_t <= x_targets /\ x_i < x_n
    /\ LET sensor == SensorAt(x_t)
           outcome == IdxOutcome(entry, present)
           products == IF outcome = "saved" THEN IdxProducts(entry, present, scl_code) ELSE {}
       IN /\ x_last' = [sensor |-> sensor, cand_id |-> cand_id, entry |-> entry,
                        present |-> present, scl_code |-> scl_code,
                        outcome |-> outcome, written |-> products]
          /\ IF outcome = "raised"
             THEN /\ x_pc' = "raised"
                  /\ UNCHANGED <<x_t, x_n, x_i>>
             ELSE /\ x_pc' = x_pc
                  /\ IF x_i + 1 = x_n
                     THEN x_t' = x_t + 1 /\ x_n' = 0 /\ x_i' = 0
                     ELSE x_t' = x_t /\ x_n' = x_n /\ x_i' = x_i + 1
    /\ UNCHANGED <<x_targets, idxOthers>>

\* the loop over the targets is over
IdxDone ==
    /\ x_pc = "run" /\ x_t > x_targets
    /\ x_pc' = "done"
    /\ UNCHANGED <<x_targets, x_t, x_n, x_i, x_last, idxOthers>>

IdxOthersIdle ==
    PickIdle /\ ResIdle /\ DlIdle /\ MathIdle /\ RgbIdle /\ TokIdle /\ Top3Idle /\ SelIdle /\ StrIdle
    /\ GridIdle /\ LayIdle

InitIdx ==
    /\ x_pc = "run"
    /\ x_targets \in 0..MaxTargets
    /\ x_t = 1
    /\ x_n = 0
    /\ x_i = 0
    /\ x_last = NoIdxLast
    /\ IdxOthersIdle

NextIdx ==
    \/ IdxSkipTarget
    \/ \E n \in 1..MaxCands : IdxBeginTarget(n)
    \/ \E cand_id \in CandIds, entry \in IdxEntries :
          \E present \in IdxDirs, scl_code \in SclContents :
              IdxCandidate(cand_id, entry, present, scl_code)
    \/ IdxDone

SpecIdx == InitIdx /\ [][NextIdx]_vars

\* ---- claims

IdxHandled == x_last # NoIdxLast
WrittenNames == {pr.name : pr \in x_last.written}

\* the last candidate has B03, B04 and B08: in the manifest and on disk
HasRequiredBands ==
    /\ IdxHandled
    /\ IdxBands(x_last.entry).B03 # None /\ IdxBands(x_last.entry).B04 # None
    /\ IdxExtra(x_last.entry).B08 # None
    /\ {IdxBands(x_last.entry).B03.key, IdxBands(x_last.entry).B04.key,
        IdxExtra(x_last.entry).B08.key} \subseteq x_last.present

\* the last candidate lacks the optional band named role (file key): the
\* manifest has no reference for it, or its file is not on disk
Lacks(role, key) ==
    IdxExtra(x_last.entry)[role] = None \/ key \notin x_last.present

\* C14 as stated: a candidate that has B03, B04 and B08 gets NDVI and NDWI
\* written; without B11 only MNDWI is left out, without SCL the indices are
\* written unmasked.
CE_C14_OptionalSkipsOnlyProduct ==
    HasRequiredBands =>
        /\ {"NDVI", "NDWI"} \subseteq WrittenNames
        /\ Lacks("B11", "B11_20m") => "MNDWI" \notin WrittenNames
        /\ Lacks("SCL", "SCL_20m") =>
              [name |-> "NDVI", px |-> RawIndices(B03Pixels, B04Pixels, B08Pixels, None).ndvi]
                  \in x_last.written

\* the last candidate misses a required band: a manifest key, or a file
MissesRequired ==
    /\ IdxHandled
    /\ ~KeysThere(x_last.entry) \/ RequiredFileMissing(x_last.entry, x_last.present)

\* C15 as stated, for the index stage: after a candidate that misses a
\* required band the run goes on with the candidates and targets that follow.
CE_C15_MissingBandStopsCandidateOnly ==
    (MissesRequired /\ (x_i + 1 < x_n \/ x_t < x_targets)) => x_pc # "raised"

\* ======================================================================
\* The composite stage: main of s2_make_rgb.py
\* ======================================================================

\* A candidate directory: whether it is a directory, the band files in it,
\* whether what they hold makes save_tci_png or make_rgb_from_bands raise, and
\* the files its output directory holds from an earlier run.
RgbOutputs == {"TCI_png", "RGB_tif", "RGB_png"}
Dir(is_dir, files, valid, old) ==
    [is_dir |-> is_dir, files |-> files, valid |-> valid, old |-> old]

\* mutant: B03 and B04 are enough
HasRgbBandsTwo(files) == "B03_10m" \in files /\ "B04_10m" \in files

\* b02.exists() and b03.exists() and b04.exists()
HasRgbBands(files) == "B02_10m" \in files /\ "B03_10m" \in files /\ "B04_10m" \in files

\* (1) TCI -> PNG: the outputs afterwards, and whether save_tci_png raised
TciPart(d, out) ==
    IF "TCI_10m" \notin d.files \/ "TCI_png" \in out THEN [out |-> out, raised |-> FALSE]
    ELSE IF d.valid = "bad_tci" THEN [out |-> out, raised |-> TRUE]
    ELSE [out |-> out \cup {"TCI_png"}, raised |-> FALSE]

\* (2) bands -> composite GeoTIFF and PNG
RgbPart(d, out) ==
    IF ~HasRgbBands(d.files) THEN [out |-> out, raised |-> FALSE]
    ELSE IF "RGB_tif" \in out /\ "RGB_png" \in out THEN [out |-> out, raised |-> FALSE]
    ELSE IF d.valid = "bad_grid" THEN [out |-> out, raised |-> TRUE]
    ELSE [out |-> out \cup {"RGB_tif", "RGB_png"}, raised |-> FALSE]

\* the body of the loop for one entry of the download root
RgbBody(d) ==
    IF ~d.is_dir THEN [out |-> d.old, raised |-> FALSE]
    ELSE LET t == TciPart(d, d.old)
         IN IF t.raised THEN t ELSE RgbPart(d, t.out)

RgbFileSets ==
    { {"TCI_10m", "B02_10m", "B03_10m", "B04_10m"}, {"B02_10m", "B03_10m", "B04_10m"},
      {"TCI_10m", "B03_10m", "B04_10m"}, {"B03_10m", "B04_10m"}, {"TCI_10m"}, {} }

Dirs ==
    {Dir(TRUE, f, v, o) : f \in RgbFileSets, v \in {"ok", "bad_tci", "bad_grid"},
                          o \in {{}, RgbOutputs}}
        \cup {Dir(FALSE, {}, "ok", {})}

RgbDir ==
    /\ g_pc = "run" /\ g_i < Len(g_batch)
    /\ LET r == RgbBody(g_batch[g_i + 1])
       IN /\ g_out' = [g_out EXCEPT ![g_i + 1] = r.out]
          /\ IF r.raised
             THEN g_pc' = "raised" /\ g_i' = g_i
             ELSE g_pc' = g_pc /\ g_i' = g_i + 1
    /\ UNCHANGED <<g_batch, rgbOthers>>

RgbDone ==
    /\ g_pc = "run" /\ g_i = Len(g_batch)
    /\ g_pc' = "done"
    /\ UNCHANGED <<g_batch, g_i, g_out, rgbOthers>>

RgbOthersIdle ==
    PickIdle /\ ResIdle /\ DlIdle /\ MathIdle /\ IdxIdle /\ TokIdle /\ Top3Idle /\ SelIdle /\ StrIdle
    /\ GridIdle /\ LayIdle

InitRgb ==
    /\ \E n \in 0..MaxDirs : g_batch \in [1..n -> Dirs]
    /\ g_i = 0
    /\ g_pc = "run"
    /\ g_out = [j \in 1..Len(g_batch) |-> g_batch[j].old]
    /\ RgbOthersIdle

NextRgb == RgbDir \/ RgbDone

SpecRgb == InitRgb /\ [][NextRgb]_vars

\* ---- claims

\* the composite files the run has added to the output directory of directory j
CompositeWritten(j) == (g_out[j] \ g_batch[j].old) \cap {"RGB_tif", "RGB_png"}

\* C16: a candidate directory without B02 gets no composite from the run, and
\* is never what makes the run raise; every directory that has been gone
\* through and holds the three bands has its composite (GeoTIFF and PNG); the
\* run goes through every directory unless save_tci_png or make_rgb_from_bands
\* raises on the contents of a file.
Thm_C16_MissingB02SkipsComposite ==
    /\ \A j \in 1..Len(g_batch) :
          "B02_10m" \notin g_batch[j].files => CompositeWritten(j) = {}
    /\ \A j \in 1..g_i :
          (g_batch[j].is_dir /\ RgbKeys \subseteq g_batch[j].files) =>
              {"RGB_tif", "RGB_png"} \subseteq g_out[j]
    /\ g_pc = "done" => g_i = Len(g_batch)
    /\ g_pc = "raised" =>
          LET d == g_batch[g_i + 1]
          IN \/ d.valid = "bad_tci" /\ "TCI_10m" \in d.files
             \/ d.valid = "bad_grid" /\ RgbKeys \subseteq d.files

Wit_C16_OneWithoutB02 ==
    /\ g_pc = "done" /\ Len(g_batch) = 2
    /\ g_batch[1].files = {"TCI_10m", "B03_10m", "B04_10m"} /\ g_batch[1].old = {}
    /\ g_batch[2].files = {"TCI_10m", "B02_10m", "B03_10m", "B04_10m"} /\ g_batch[2].old = {}
    /\ g_out[1] = {"TCI_png"}
    /\ g_out[2] = RgbOutputs

\* ======================================================================
\* download_with_token of s2_download_test.py
\* ======================================================================

max_retries == 3
SleepFactor == 2

\* mutant: the except clause sleeps before it re-raises, too
AfterFailureSleepsLast(attempt, slept) ==
    [pc |-> IF attempt < max_retries THEN "attempt" ELSE "raised",
     attempt |-> IF attempt < max_retries THEN attempt + 1 ELSE attempt,
     slept |-> Append(slept, SleepFactor * attempt)]

\* the except clause: sleep 2 * attempt and go on, or re-raise after the last
AfterFailure(attempt, slept) ==
    IF attempt < max_retries
    THEN [pc |-> "attempt", attempt |-> attempt + 1,
          slept |-> Append(slept, SleepFactor * attempt)]
    ELSE [pc |-> "raised", attempt |-> attempt, slept |-> slept]

\* mutant: the chunks are written to out_zip as well
WrittenInPlace(part, final) ==
    [part |-> File("new", part.chunks + 1), final |-> File("new", part.chunks + 1)]

\* f.write(chunk) on the file opened at tmp_path
Written(part, final) == [part |-> File("new", part.chunks + 1), final |-> final]

\* requests.get raises, or the response is not ok
TokRequestFails ==
    /\ t_pc = "attempt"
    /\ LET h == AfterFailure(t_attempt, t_slept)
       IN t_pc' = h.pc /\ t_attempt' = h.attempt /\ t_slept' = h.slept
    /\ t_requests' = t_requests + 1
    /\ UNCHANGED <<t_body, t_part, t_final, tokOthers>>

\* the response is ok: tmp_path is opened for writing, which empties it
TokOpenPart ==
    /\ t_pc = "attempt"
    /\ t_requests' = t_requests + 1
    /\ t_part' = File("new", 0)
    /\ t_pc' = "writing"
    /\ UNCHANGED <<t_attempt, t_body, t_final, t_slept, tokOthers>>

\* iter_content yields the next chunk, which is written
TokChunk ==
    /\ t_pc = "writing" /\ t_part.chunks < t_body
    /\ LET w == Written(t_part, t_final)
       IN t_part' = w.part /\ t_final' = w.final
    /\ UNCHANGED <<t_pc, t_attempt, t_body, t_slept, t_requests, tokOthers>>

\* iter_content, f.write or tmp_path.replace raises
TokStreamFails ==
    /\ t_pc = "writing"
    /\ LET h == AfterFailure(t_attempt, t_slept)
       IN t_pc' = h.pc /\ t_attempt' = h.attempt /\ t_slept' = h.slept
    /\ UNCHANGED <<t_body, t_part, t_final, t_requests, tokOthers>>

\* the body is complete: tmp_path.replace(out_zip), return
TokReplace ==
    /\ t_pc = "writing" /\ t_part.chunks = t_body
    /\ t_final' = t_part
    /\ t_part' = NoFile
    /\ t_pc' = "returned"
    /\ UNCHANGED <<t_attempt, t_body, t_slept, t_requests, tokOthers>>

\* the process is killed
TokCrash ==
    /\ t_pc \in {"attempt", "writing"}
    /\ t_pc' = "crashed"
    /\ UNCHANGED <<t_attempt, t_body, t_part, t_final, t_slept, t_requests, tokOthers>>

TokOthersIdle ==
    PickIdle /\ ResIdle /\ DlIdle /\ MathIdle /\ IdxIdle /\ RgbIdle /\ Top3Idle /\ SelIdle /\ StrIdle
    /\ GridIdle /\ LayIdle

\* out_zip and tmp_path before the call: absent, or left by an earlier call
OldFinal == File("old", 1)
OldPart == File("old", 1)

InitTok ==
    /\ t_pc = "attempt"
    /\ t_attempt = 1
    /\ t_body \in 1..MaxChunks
    /\ t_part \in {NoFile, OldPart}
    /\ t_final \in {NoFile, OldFinal}
    /\ t_slept = <<>>
    /\ t_requests = 0
    /\ TokOthersIdle

NextTok ==
    TokRequestFails \/ TokOpenPart \/ TokChunk \/ TokStreamFails \/ TokReplace \/ TokCrash

SpecTok == InitTok /\ [][NextTok]_vars

\* the sleeps made before attempt number a: 2 * 1, ..., 2 * (a - 1)
SleptBefore(a) == [j \in 1..(a - 1) |-> SleepFactor * j]

\* C18: download_with_token makes at most 3 requests; before attempt a it has
\* slept 2 s after the first failure and 4 s after the second; once it has
\* returned it makes no further attempt; after the third failure it re-raises
\* without another sleep.
Thm_C18_ThreeAttemptsLinearBackoff ==
    /\ [](/\ t_requests <= 3
          /\ t_attempt \in 1..3
          /\ t_slept = SleptBefore(t_attempt)
          /\ t_slept \in {<<>>, <<2>>, <<2, 4>>}
          /\ t_pc = "attempt" => t_requests = t_attempt - 1
          /\ t_pc \in {"writing", "returned", "raised"} => t_requests = t_attempt
          /\ t_pc = "raised" => t_requests = 3 /\ t_slept = <<2, 4>>)
    /\ [][(t_pc \in {"returned", "raised"}) => UNCHANGED <<t_requests, t_slept, t_pc>>]_vars

Wit_C18_ThirdFailure == t_pc = "raised" /\ t_requests = 3 /\ t_slept = <<2, 4>>

\* C19: the file at out_zip is always absent, the one from before the call, or
\* the complete body; it is the new one only once the call has returned, and
\* a failure or a kill in the middle of the body leaves the chunks at tmp_path.
Thm_C19_NoPartialAtFinalPath ==
    /\ t_final \in {NoFile, OldFinal, File("new", t_body)}
    /\ t_final.who = "new" => t_pc = "returned" /\ t_part = NoFile
    /\ t_pc \in {"attempt", "writing", "raised", "crashed"} => t_final \in {NoFile, OldFinal}

Wit_C19_KilledMidBody ==
    /\ t_pc = "crashed"
    /\ t_body = 2
    /\ t_part = File("new", 1)
    /\ t_final = OldFinal

\* ======================================================================
\* main of s2_download_top3_and_compare.py
\* ======================================================================

Top3 == 3
Top3Bands == <<"B02", "B03", "B04">>

\* an entry of candidates_topk_rgb_assets as this stage reads it: whether it
\* has the key "rgb_assets", and the bands there that carry an href
Top3Entry(has_rgb_assets, hrefs) == [has_rgb_assets |-> has_rgb_assets, hrefs |-> hrefs]

Top3Path(sensor, item_id, band) == [sensor |-> sensor, item_id |-> item_id, band |-> band]

\* the band loop of one candidate: a band without href raises RuntimeError;
\* the download of band number bad fails (0: none does)
RECURSIVE Top3Fetch(_, _, _, _, _, _)
Top3Fetch(b, sensor, item_id, entry, bad, st) ==
    IF b > Len(Top3Bands) \/ st.err # "" THEN st
    ELSE LET band == Top3Bands[b]
             path == Top3Path(sensor, item_id, band)
         IN IF band \notin entry.hrefs
            THEN [st EXCEPT !.err = "RuntimeError"]
            ELSE IF IsThere(path, st.files)
            THEN Top3Fetch(b + 1, sensor, item_id, entry, bad, st)
            ELSE IF b = bad
            THEN [st EXCEPT !.err = "ClientError"]
            ELSE Top3Fetch(b + 1, sensor, item_id, entry, bad,
                           [st EXCEPT !.files = @ \cup {path}])

\* lines 202-206: fewer than 3 candidates or entries raise RuntimeError
Top3Begin(ncands) ==
    IF ncands < Top3 THEN "raised" ELSE "triplet"

\* a target whose status is not "ok": skip line and continue
Top3SkipTarget ==
    /\ p_pc = "run" /\ p_i = 0 /\ p_t < p_n
    /\ p_t' = p_t + 1
    /\ p_last' = [status |-> "no_items", ncands |-> 0, entry |-> None, err |-> ""]
    /\ UNCHANGED <<p_pc, p_n, p_i, p_fs, p_figs, top3Others>>

\* a target with status "ok": the check of the two lengths
Top3BeginTarget ==
    /\ p_pc = "run" /\ p_i = 0 /\ p_t < p_n
    /\ \E ncands \in 0..(MaxCands + 1) :
         LET go == Top3Begin(ncands)
         IN /\ p_pc' = IF go = "raised" THEN "raised" ELSE "run"
            /\ p_i' = IF go = "triplet" THEN 1 ELSE 0
            /\ p_last' = [status |-> "ok", ncands |-> ncands, entry |-> None,
                          err |-> IF go = "raised" THEN "RuntimeError" ELSE ""]
    /\ UNCHANGED <<p_n, p_t, p_fs, p_figs, top3Others>>

\* one pass of "for i in range(3)"; after the third the figure is made
Top3Candidate ==
    /\ p_pc = "run" /\ p_i \in 1..Top3
    /\ \E has \in BOOLEAN, hrefs \in SUBSET {"B02", "B03", "B04"}, bad \in 0..Len(Top3Bands) :
         LET entry == Top3Entry(has, hrefs)
             item_id == <<"a", "b", "c">>[p_i]
             st == IF ~has THEN [files |-> p_fs, err |-> "KeyError"]
                   ELSE Top3Fetch(1, SensorAt(p_t + 1), item_id, entry, bad,
                                  [files |-> p_fs, err |-> ""])
         IN /\ p_fs' = st.files
            /\ p_last' = [status |-> "ok", ncands |-> p_last.ncands, entry |-> entry,
                          err |-> st.err]
            /\ IF st.err # ""
               THEN p_pc' = "raised" /\ UNCHANGED <<p_i, p_t, p_figs>>
               ELSE IF p_i < Top3
               THEN p_i' = p_i + 1 /\ UNCHANGED <<p_pc, p_t, p_figs>>
               ELSE /\ p_figs' = p_figs \cup {p_t + 1}
                    /\ p_t' = p_t + 1
                    /\ p_i' = 0
                    /\ UNCHANGED p_pc
    /\ UNCHANGED <<p_n, top3Others>>

Top3Done ==
    /\ p_pc = "run" /\ p_i = 0 /\ p_t = p_n
    /\ p_pc' = "done"
    /\ UNCHANGED <<p_n, p_t, p_i, p_fs, p_figs, p_last, top3Others>>

Top3OthersIdle ==
    PickIdle /\ ResIdle /\ DlIdle /\ MathIdle /\ IdxIdle /\ RgbIdle /\ TokIdle /\ SelIdle /\ StrIdle
    /\ GridIdle /\ LayIdle

InitTop3 ==
    /\ p_pc = "run"
    /\ p_n \in 0..MaxTargets
    /\ p_t = 0
    /\ p_i = 0
    /\ p_fs = {}
    /\ p_figs = {}
    /\ p_last = NoTop3Last
    /\ Top3OthersIdle

NextTop3 == Top3SkipTarget \/ Top3BeginTarget \/ Top3Candidate \/ Top3Done

SpecTop3 == InitTop3 /\ [][NextTop3]_vars

\* C20: no consumer stage raises because a target has status "no_items" or
\* fewer than K candidates, or because an entry lacks "tci", "bands" or
\* "index"; here: whenever the top-3 stage has raised, the target it was at
\* had its three candidates.  The code raises for 0, 1 or 2 candidates.
CE_C20_FewCandidatesNeverRaise ==
    p_pc = "raised" => p_last.ncands >= Top3

\* ======================================================================
\* main of s2_stac_pick_cloudfree.py: the selection run and its manifest
\* ======================================================================

\* cfg and k of main
MainCfg == [window_days |-> 10, cloud_lt |-> 100, max_items |-> 200]
MainK == 3

\* pick_topk_items(client, date, c, kk) for the catalog answering with cat
PickFor(cat, date, c, kk) ==
    LET hit == {i \in Tiers : Collect(Filter(cat, date, Plan(c)[i]), c.max_items) # <<>>}
    IN IF hit = {}
       THEN [status |-> "no_items", target_date |-> date, reason |-> Reason(Plan(c)[3])]
       ELSE LET first == CHOOSE i \in hit : \A j \in hit : i <= j
                t == Plan(c)[first]
                items == Collect(Filter(cat, date, t), c.max_items)
                sorted_items == Sorted(items, date)
            IN IF \E i \in 1..Len(items) : ScoreRaises(items[i])
               THEN [status |-> "raised"]
               ELSE [status |-> "ok",
                     target_date |-> date,
                     search_used |-> [datetime |-> <<RangeStart(date, t.window_days),
                                                     RangeEnd(date, t.window_days)>>,
                                      cloud_lt |-> t.cloud_lt,
                                      window_days |-> t.window_days],
                     candidates_topk |-> TopK(sorted_items, kk),
                     candidates_topk_rgb_assets |-> TopKAssets(sorted_items, kk)]

\* {"sensor": sensor, **res}
TargetRecord(sensor, res) == [sensor |-> sensor, res |-> res]

\* the prints of an "ok" result: res["candidates_topk_rgb_assets"][0] raises
\* IndexError on an empty list
InspectRaises(res) == res.status = "ok" /\ res.candidates_topk_rgb_assets = <<>>

\* mutant: the records are added to those of the manifest found on disk
SavedMerged(old, results) ==
    [there |-> TRUE, config |-> MainCfg,
     targets |-> IF old.there THEN old.targets \o results ELSE results]

\* out.write_text(json.dumps(results)): the document that replaces the file
Saved(old, results) == [there |-> TRUE, config |-> MainCfg, targets |-> results]

ItemOf(id) == CHOOSE it \in Universe : it.id = id

\* what the catalog may answer to one target's searches
SelAnswers ==
    { <<>>,
      <<ItemOf("z")>>,
      <<ItemOf("a")>>,
      <<ItemOf("b"), ItemOf("a")>>,
      <<ItemOf("c"), ItemOf("h"), ItemOf("e"), ItemOf("a")>> }

\* one pass of the loop: pick, append the record, print
SelTarget ==
    /\ s_pc = "run" /\ Len(s_results) < Len(s_targets)
    /\ \E cat \in SelAnswers :
         LET tg == s_targets[Len(s_results) + 1]
             res == PickFor(cat, tg.date, MainCfg, MainK)
         IN /\ res.status # "raised"
            /\ s_cats' = Append(s_cats, cat)
            /\ s_results' = Append(s_results, TargetRecord(tg.sensor, res))
            /\ s_pc' = IF InspectRaises(res) THEN "raised" ELSE "run"
    /\ UNCHANGED <<s_targets, s_manifest, selOthers>>

\* client.search or the sort key raises inside pick_topk_items
SelPickRaises ==
    /\ s_pc = "run" /\ Len(s_results) < Len(s_targets)
    /\ s_pc' = "raised"
    /\ UNCHANGED <<s_targets, s_cats, s_results, s_manifest, selOthers>>

\* after the loop: the manifest is written
SelSave ==
    /\ s_pc = "run" /\ Len(s_results) = Len(s_targets)
    /\ s_manifest' = Saved(s_manifest, s_results)
    /\ s_pc' = "saved"
    /\ UNCHANGED <<s_targets, s_cats, s_results, selOthers>>

SelOthersIdle ==
    PickIdle /\ ResIdle /\ DlIdle /\ MathIdle /\ IdxIdle /\ RgbIdle /\ TokIdle /\ Top3Idle /\ StrIdle
    /\ GridIdle /\ LayIdle

\* a manifest left by an earlier run
OldManifest ==
    [there |-> TRUE, config |-> MainCfg,
     targets |-> <<TargetRecord("ICEYE", PickFor(<<>>, 0, MainCfg, MainK))>>]

InitSel ==
    /\ s_pc = "run"
    /\ \E n \in 1..MaxTargets :
         s_targets \in {tg \in [1..n -> [sensor : {SensorAt(i) : i \in 1..n}, date : TargetDates]] :
                           \A i \in 1..n : tg[i].sensor = SensorAt(i)}
    /\ s_cats = <<>>
    /\ s_results = <<>>
    /\ s_manifest \in {NoManifest, OldManifest}
    /\ SelOthersIdle

NextSel == SelTarget \/ SelPickRaises \/ SelSave

SpecSel == InitSel /\ [][NextSel]_vars

\* C21: a manifest written by the run has one record per requested target, in
\* request order, each of status "ok" or "no_items" and equal to what
\* pick_topk_items returns for that target alone; it holds nothing of an
\* earlier manifest.
Thm_C21_OneRecordPerTarget ==
    s_pc = "saved" =>
        /\ s_manifest.there
        /\ Len(s_manifest.targets) = Len(s_targets)
        /\ \A i \in 1..Len(s_targets) :
              /\ s_manifest.targets[i].sensor = s_targets[i].sensor
              /\ s_manifest.targets[i].res.target_date = s_targets[i].date
              /\ s_manifest.targets[i].res.status \in {"ok", "no_items"}
              /\ s_manifest.targets[i].res = PickFor(s_cats[i], s_targets[i].date, MainCfg, MainK)

Wit_C21_NoItemsThenOk ==
    /\ s_pc = "saved"
    /\ Len(s_targets) = 2
    /\ s_manifest.targets[1].res.status = "no_items"
    /\ s_manifest.targets[2].res.status = "ok"
    /\ Len(s_manifest.targets[2].res.candidates_topk) = 3

\* ======================================================================
\* The pool cap of pick_topk_items, checked under SpecPick
\* ======================================================================

\* C24: in every tier the pool collected holds at most cfg.max_items items,
\* for every cap max_items >= 0.  With max_items = 0 the loop appends the
\* first item before it tests the cap.
CE_C24_PoolWithinCap ==
    cfg.max_items >= 0 => Len(pool) <= cfg.max_items

\* ======================================================================
\* The visualization stretches: normalize_rgb_uint8 (two copies) and
\* percentile_stretch
\* ======================================================================

PLow == 2
PHigh == 98
MinSamples == 100

\* An image is a sequence of blocks; a block is w pixels of one value per
\* band: px = <<r, g, b>>.  A channel is the sequence of [v, w] of one band.
Channel(img, c) == [i \in 1..Len(img) |-> [v |-> img[i].px[c], w |-> img[i].w]]

\* number of pixels of the blocks I of a channel
RECURSIVE SumW(_, _)
SumW(ch, I) ==
    IF I = {} THEN 0
    ELSE LET i == CHOOSE j \in I : TRUE IN ch[i].w + SumW(ch, I \ {i})

\* x <= y; False when either is NaN
FLeq(x, y) == isfinite(x) /\ isfinite(y) /\ x.n * y.d <= y.n * x.d

\* the pixel at position j (from 0) of the sorted values of the blocks I
ElemAt(ch, I, j) ==
    LET i == CHOOSE a \in I :
                 /\ SumW(ch, {b \in I : ch[b].v.n < ch[a].v.n}) <= j
                 /\ j < SumW(ch, {b \in I : ch[b].v.n <= ch[a].v.n})
    IN ch[i].v

\* np.percentile(values of I, q), linear interpolation, I not empty
Percentile(ch, I, q) ==
    LET n == SumW(ch, I)
        pos == q * (n - 1)
        a == ElemAt(ch, I, pos \div 100)
        b == ElemAt(ch, I, Min(pos \div 100 + 1, n - 1))
    IN Ratio(a.n * 100 + (pos % 100) * (b.n - a.n), 100)

MinOf(ch, I) == ch[CHOOSE a \in I : \A b \in I : ch[a].v.n <= ch[b].v.n].v
MaxOf(ch, I) == ch[CHOOSE a \in I : \A b \in I : ch[a].v.n >= ch[b].v.n].v

FiniteOf(ch) == {i \in 1..Len(ch) : isfinite(ch[i].v)}
PositiveOf(ch) == {i \in FiniteOf(ch) : ch[i].v.n > 0}

Stretched(lo, hi, how) == [err |-> "", lo |-> lo, hi |-> hi, how |-> how]
Raised(err) == [err |-> err, lo |-> NaN, hi |-> NaN, how |-> "raised"]

\* hi = lo + 1.0 when the range is still empty
Widened(lo, hi) == Stretched(lo, IF FLeq(hi, lo) THEN FAdd(lo, Fin(1)) ELSE hi, "widened")

\* one pass of "for c in range(3)" of s2_download_top3_and_compare.py: the set
\* of its outcomes.  np.percentile of an empty array raises IndexError or
\* gives nan, by the numpy at hand; np.min of an empty array raises ValueError.
ChanTop3(ch) ==
    LET pos == PositiveOf(ch)
        sample == IF SumW(ch, pos) < MinSamples THEN FiniteOf(ch) ELSE pos
    IN IF sample = {}
       THEN {Raised("IndexError"), Stretched(NaN, NaN, "percentile")}
       ELSE LET lo == Percentile(ch, sample, PLow)
                hi == Percentile(ch, sample, PHigh)
            IN IF FLeq(hi, lo)
               THEN IF pos = {} THEN {Raised("ValueError")}
                    ELSE {Widened(MinOf(ch, pos), MaxOf(ch, pos))}
               ELSE {Stretched(lo, hi, "percentile")}

\* the same pass of s2_make_compare_png.py
ChanCompare(ch) ==
    LET pos == PositiveOf(ch)
        sample == IF SumW(ch, pos) < MinSamples THEN FiniteOf(ch) ELSE pos
        lo == IF sample = {} THEN Fin(0) ELSE Percentile(ch, sample, PLow)
        hi == IF sample = {} THEN Fin(1) ELSE Percentile(ch, sample, PHigh)
    IN IF FLeq(hi, lo)
       THEN Widened(IF pos = {} THEN Fin(0) ELSE MinOf(ch, pos),
                    IF pos = {} THEN Fin(1) ELSE MaxOf(ch, pos))
       ELSE Stretched(lo, hi, "percentile")

\* np.any(np.isfinite(rgb) & (rgb > 0))
AnyValid(img) == \E c \in 1..3 : PositiveOf(Channel(img, c)) # {}

\* the fixed 0..10000 scale
Scaled == [err |-> "", how |-> "scale10000", chans |-> <<>>]

\* the loop over the three channels: the first exception ends it
Combine(os) ==
    LET bad == {c \in 1..3 : os[c].err # ""}
    IN IF bad = {} THEN [err |-> "", how |-> "stretch", chans |-> os]
       ELSE [err |-> os[CHOOSE c \in bad : \A e \in bad : c <= e].err,
             how |-> "raised", chans |-> <<>>]

\* normalize_rgb_uint8 of s2_download_top3_and_compare.py: its outcomes
normalize_rgb_uint8_top3(img) ==
    IF ~AnyValid(img) THEN {Scaled}
    ELSE {Combine(<<o1, o2, o3>>) : o1 \in ChanTop3(Channel(img, 1)),
                                    o2 \in ChanTop3(Channel(img, 2)),
                                    o3 \in ChanTop3(Channel(img, 3))}

\* normalize_rgb_uint8 of s2_make_compare_png.py
normalize_rgb_uint8_compare(img) ==
    IF ~AnyValid(img) THEN Scaled
    ELSE Combine([c \in 1..3 |-> ChanCompare(Channel(img, c))])

\* percentile_stretch of s2_make_rgb.py on one band
percentile_stretch(x) ==
    LET nn == {i \in 1..Len(x) : x[i].v.kind # "nan"}
        lo == IF nn = {} THEN NaN ELSE Percentile(x, nn, PLow)
        hi == IF nn = {} THEN NaN ELSE Percentile(x, nn, PHigh)
        lo2 == IF nn = {} THEN NaN ELSE MinOf(x, nn)
        hi2 == IF nn = {} THEN NaN ELSE MaxOf(x, nn)
    IN IF ~isfinite(lo) \/ ~isfinite(hi) \/ FLeq(hi, lo)
       THEN IF ~isfinite(lo2) \/ ~isfinite(hi2) \/ FLeq(hi2, lo2)
            THEN [err |-> "", how |-> "zeros", chans |-> <<>>]
            ELSE [err |-> "", how |-> "stretch", chans |-> <<Stretched(lo2, hi2, "minmax")>>]
       ELSE [err |-> "", how |-> "stretch", chans |-> <<Stretched(lo, hi, "percentile")>>]

StretchVals == {Fin(0), Fin(4), Fin(8), NaN}
Images ==
    UNION {[1..n -> [px : [1..3 -> StretchVals], w : {1, MinSamples}]] : n \in 1..MaxBlocks}

CallNormTop3 ==
    /\ v_pc = "call"
    /\ v_out' \in normalize_rgb_uint8_top3(v_img)
    /\ v_fn' = "normalize_rgb_uint8_top3"
    /\ v_pc' = "done"
    /\ UNCHANGED <<v_img, strOthers>>

CallNormCompare ==
    /\ v_pc = "call"
    /\ v_out' = normalize_rgb_uint8_compare(v_img)
    /\ v_fn' = "normalize_rgb_uint8_compare"
    /\ v_pc' = "done"
    /\ UNCHANGED <<v_img, strOthers>>

\* percentile_stretch of the first band
CallPercentileStretch ==
    /\ v_pc = "call"
    /\ v_out' = percentile_stretch(Channel(v_img, 1))
    /\ v_fn' = "percentile_stretch"
    /\ v_pc' = "done"
    /\ UNCHANGED <<v_img, strOthers>>

StrOthersIdle ==
    PickIdle /\ ResIdle /\ DlIdle /\ MathIdle /\ IdxIdle /\ RgbIdle /\ TokIdle /\ Top3Idle /\ SelIdle
    /\ GridIdle /\ LayIdle

InitStretch ==
    /\ v_img \in Images
    /\ v_pc = "call"
    /\ v_fn = "none"
    /\ v_out = None
    /\ StrOthersIdle

NextStretch == CallNormTop3 \/ CallNormCompare \/ CallPercentileStretch

SpecStretch == InitStretch /\ [][NextStretch]_vars

\* C22: no implementation of the stretch raises, and none divides by an empty
\* range: every channel it stretches has lo < hi, whatever the input arrays.
\* The copy of s2_download_top3_and_compare.py raises for a band without a
\* positive value next to a band with one.
CE_C22_StretchNeverRaises ==
    v_pc = "done" =>
        /\ v_out.err = ""
        /\ \A c \in 1..Len(v_out.chans) :
              /\ FLeq(v_out.chans[c].lo, v_out.chans[c].hi)
              /\ ~FLeq(v_out.chans[c].hi, v_out.chans[c].lo)

\* ======================================================================
\* The grids of the bands combined: make_rgb_from_bands of s2_make_rgb.py
\* and the reads of the index stage (s2_make_indices.py)
\* ======================================================================

\* a band file, along one axis: CRS, origin, pixel size and number of pixels
Grid(crs, x0, res, width) == [crs |-> crs, x0 |-> x0, res |-> res, width |-> width]

\* an array with the grid its pixels lie on
Arr(shape, x0, res, crs) ==
    [shape |-> shape, transform |-> [x0 |-> x0, res |-> res], crs |-> crs]

\* read_one_band without AOI: src.read(1), src.transform, src.crs
read_one_band(g) == Arr(g.width, g.x0, Fin(g.res), g.crs)

\* ref.profile of the reference band
Profile(g) == [width |-> g.width, transform |-> [x0 |-> g.x0, res |-> Fin(g.res)], crs |-> g.crs]

\* ds.read(1, out_shape=...): the whole extent of the band, cut into as many
\* pixels as the reference has
read_resampled(g, ref_profile) ==
    Arr(ref_profile.width, g.x0, Ratio(g.res * g.width, ref_profile.width), g.crs)

\* make_rgb_from_bands: the two sanity checks, then the stack
make_rgb_from_bands(g04, g03, g02) ==
    LET b04 == read_one_band(g04)
        b03 == read_one_band(g03)
        b02 == read_one_band(g02)
    IN IF b04.crs # b03.crs \/ b04.crs # b02.crs
       THEN [kind |-> "raised", err |-> "RuntimeError", arrays |-> {}]
       ELSE IF \/ b04.transform # b03.transform \/ b04.transform # b02.transform
               \/ b04.shape # b03.shape \/ b04.shape # b02.shape
       THEN [kind |-> "raised", err |-> "RuntimeError", arrays |-> {}]
       ELSE [kind |-> "composite", err |-> "", arrays |-> {b04, b03, b02}]

\* lines 125-157 of s2_make_indices.py: every band read onto the profile of
\* B03, then combined pixel by pixel
IndexReads(g03, g04, g08, g11, gscl) ==
    LET ref_profile == Profile(g03)
        opt == {g \in {g11, gscl} : g # None}
    IN [kind |-> "index", err |-> "",
        arrays |-> {read_resampled(g, ref_profile) : g \in {g03, g04, g08} \cup opt}]

\* the grids band files may have: a 10 m band and a 20 m band of one tile,
\* the same two shifted, the same in another CRS, and a band cut short
Grids ==
    {Grid(crs, x0, sh[1], sh[2]) : crs \in {"EPSG:32652", "EPSG:32651"}, x0 \in {0, 20},
                                   sh \in {<<10, 2>>, <<20, 1>>}}
      \cup {Grid("EPSG:32652", 0, 10, 1)}

CallMakeRgb ==
    /\ q_pc = "call"
    /\ \E g04 \in Grids, g03 \in Grids, g02 \in Grids :
         /\ q_in' = [B04 |-> g04, B03 |-> g03, B02 |-> g02]
         /\ q_out' = make_rgb_from_bands(g04, g03, g02)
    /\ q_fn' = "make_rgb_from_bands"
    /\ q_pc' = "done"
    /\ UNCHANGED gridOthers

CallIndexReads ==
    /\ q_pc = "call"
    /\ \E g03 \in Grids, g04 \in Grids, g08 \in Grids,
          g11 \in Grids \cup {None}, gscl \in Grids \cup {None} :
         /\ q_in' = [B03 |-> g03, B04 |-> g04, B08 |-> g08, B11 |-> g11, SCL |-> gscl]
         /\ q_out' = IndexReads(g03, g04, g08, g11, gscl)
    /\ q_fn' = "indices"
    /\ q_pc' = "done"
    /\ UNCHANGED gridOthers

GridOthersIdle ==
    PickIdle /\ ResIdle /\ DlIdle /\ MathIdle /\ IdxIdle /\ RgbIdle /\ TokIdle /\ Top3Idle /\ SelIdle
    /\ StrIdle /\ LayIdle

InitGrid ==
    /\ q_pc = "call"
    /\ q_fn = "none"
    /\ q_in = None
    /\ q_out = None
    /\ GridOthersIdle

NextGrid == CallMakeRgb \/ CallIndexReads

SpecGrid == InitGrid /\ [][NextGrid]_vars

\* C23: whenever a composite is returned or the indices are computed, the
\* arrays combined have one shape, one geotransform and one CRS.  The index
\* stage only gives every array the reference's shape.
CE_C23_OneGrid ==
    q_pc = "done" /\ q_out.kind \in {"composite", "index"} =>
        \A a, b \in q_out.arrays : a = b

\* ======================================================================
\* The file layout: where the download stage writes a band and where the
\* RGB, comparison and index stages look for it
\* ======================================================================

At(role, path) == [role |-> role, path |-> path]

\* the bands of the band loop fetched before a band without href raises
BandsFetched(entry) ==
    IF entry.bands = None THEN {}
    ELSE {BandNames[i] : i \in {j \in 1..Len(BandNames) :
                                   \A h \in 1..j : HasHref(entry.bands[BandNames[h]])}}

BandLoopRaises(entry) ==
    entry.bands # None /\ \E i \in 1..Len(BandNames) : ~HasHref(entry.bands[BandNames[i]])

\* s2_s3_download_rgb.py: the files of one manifest position, by role
DlWrites(sensor, cand_id, entry) ==
    LET item_id == ItemIdOf(cand_id, entry)
    IN {At("TCI", OutPath(sensor, item_id, KeyName(entry.tci, "TCI_10m"))) :
           x \in {y \in {1} : HasHref(entry.tci)}}
       \cup {At(b, OutPath(sensor, item_id, KeyName(entry.bands[b], b))) : b \in BandsFetched(entry)}
       \cup IF entry.index = None \/ BandLoopRaises(entry) THEN {}
            ELSE {At(key, OutPath(sensor, item_id, KeyName(entry.index[key], key))) :
                     key \in {e \in {"B08", "B11", "SCL"} : HasHref(entry.index[e])}}

\* s2_make_indices.py: base / f"{item_id}_{bands['B03']['key']}.jp2" and so
\* on, with item_id = cands[i]["id"], once the key check has passed
IndexLooks(sensor, cand_id, entry) ==
    IF ~KeysThere(entry) THEN {}
    ELSE {At(b, OutPath(sensor, cand_id, IdxBands(entry)[b].key)) : b \in {"B03", "B04"}}
         \cup {At(e, OutPath(sensor, cand_id, IdxExtra(entry)[e].key)) : e \in {"B08", "B11", "SCL"}}

\* s2_make_compare_png.py: fixed names under the candidate's id
CompareLooks(sensor, cand_id) ==
    {At(b, OutPath(sensor, cand_id, keyname)) :
        <<b, keyname>> \in {<<"B02", "B02_10m">>, <<"B03", "B03_10m">>, <<"B04", "B04_10m">>}}

\* s2_make_rgb.py: fixed names under the name of each item directory found
RgbLooks(sensor, item_dir) ==
    {At(b, OutPath(sensor, item_dir, keyname)) :
        <<b, keyname>> \in {<<"TCI", "TCI_10m">>, <<"B02", "B02_10m">>, <<"B03", "B03_10m">>,
                            <<"B04", "B04_10m">>}}

Looked(stage, looks) == {[stage |-> stage, role |-> l.role, path |-> l.path] : l \in looks}

\* the download stage handles one position of the manifest
LayoutDownload ==
    /\ y_in = None
    /\ \E t \in 1..Len(Sensors), cand_id \in CandIds, entry \in Entries :
         /\ y_in' = [sensor |-> SensorAt(t), cand_id |-> cand_id, entry |-> entry]
         /\ y_written' = DlWrites(SensorAt(t), cand_id, entry)
    /\ UNCHANGED <<y_ran, y_looked, layOthers>>

LayoutIndex ==
    /\ y_in # None /\ "index" \notin y_ran
    /\ y_ran' = y_ran \cup {"index"}
    /\ y_looked' = y_looked \cup Looked("index", IndexLooks(y_in.sensor, y_in.cand_id, y_in.entry))
    /\ UNCHANGED <<y_in, y_written, layOthers>>

LayoutCompare ==
    /\ y_in # None /\ "compare" \notin y_ran
    /\ y_ran' = y_ran \cup {"compare"}
    /\ y_looked' = y_looked \cup Looked("compare", CompareLooks(y_in.sensor, y_in.cand_id))
    /\ UNCHANGED <<y_in, y_written, layOthers>>

\* the RGB stage walks the directories the download stage has made
LayoutRgb ==
    /\ y_in # None /\ "rgb" \notin y_ran
    /\ y_ran' = y_ran \cup {"rgb"}
    /\ y_looked' = y_looked
          \cup Looked("rgb", RgbLooks(y_in.sensor, ItemIdOf(y_in.cand_id, y_in.entry)))
    /\ UNCHANGED <<y_in, y_written, layOthers>>

LayOthersIdle ==
    PickIdle /\ ResIdle /\ DlIdle /\ MathIdle /\ IdxIdle /\ RgbIdle /\ TokIdle /\ Top3Idle /\ SelIdle
    /\ StrIdle /\ GridIdle

InitLayout ==
    /\ y_in = None
    /\ y_written = {}
    /\ y_ran = {}
    /\ y_looked = {}
    /\ LayOthersIdle

NextLayout == LayoutDownload \/ LayoutIndex \/ LayoutCompare \/ LayoutRgb

SpecLayout == InitLayout /\ [][NextLayout]_vars

\* C25: every band file the download stage has written lies at the path
\* where each later stage looks for that band of that candidate, also when
\* the candidate's id and the entry's id differ.  The download stage stores
\* under the entry's id, the index and comparison stages look under the
\* candidate's.
CE_C25_StagesAgreeOnPaths ==
    \A w \in y_written : \A l \in y_looked : l.role = w.role => l.path = w.path

====
